---- MODULE Spec2Model ----
(***************************************************************************)
(* Job-orchestration fabric of the DNA platform: the ai_tasks row state    *)
(* machine, the template:parse work stream with its consumer group, the    *)
(* worker's per-message handler, the zombie reaper, the HTTP cancel and    *)
(* internal progress endpoints, and the LLM gateway semaphores.            *)
(*                                                                         *)
(* Timestamps are kept as elapsed minutes since the instant they were set  *)
(* (NOW() - column): NOW() is written as 0 and Tick ages every non-NULL    *)
(* timestamp, saturating at the age past which no comparison in the code   *)
(* changes its outcome.                                                    *)
(***************************************************************************)
EXTENDS Integers, Sequences, FiniteSets, TLC

\* ---- bounds -------------------------------------------------------------
NumTasks == 1
NumWorkers == 2
MaxCrashes == 1
MaxEndpointCalls == 1
NumCallers == 3
NumJobs == 2
NumTemplates == 1
NumSessions == 2
MaxVersion == 5
NumClients == 2
MaxProgressEvents == 1
NumRequests == 2
MaxPublished == 3
MaxPings == 1

\* ---- program constants --------------------------------------------------
TickMinutes == 5
ProcessingTimeout == 15
PendingTimeout == 20
InProgressWindow == 10
max_concurrent_calls == 2
max_retries == 3

NULL == "NULL"
\* SQL NULL of the integer and timestamp columns
NONE == 0 - 1
Tasks == 1..NumTasks
Workers == 1..NumWorkers
Callers == 1..NumCallers
Jobs == 1..NumJobs
TemplateIds == 1..NumTemplates
Sessions == 1..NumSessions
Clients == 1..NumClients
Requests == 1..NumRequests

ProcessingTimeoutError == "Task timed out after 15 minutes - worker may have crashed"
PendingTimeoutError == "Task never started after 20 minutes - no worker available"
HandlerError == "Parsing failed"
EndpointError == "reported by endpoint"

Terminal == {"completed", "failed", "cancelled"}
States == {"pending", "processing"} \cup Terminal

\* progress values the parse handler and the template agent report, in order
ParseTicks == <<10, 40, 70, 85, 95>>

VARIABLES
    ai_tasks,        \* task id -> row of dna_app.ai_tasks ("none": no row yet)
    stream,          \* the template:parse stream: sequence of messages (task ids)
    last_delivered,  \* the consumer group's last-delivered position in the stream
    pel,             \* the group's pending entries list: delivered, not yet acked
    events,          \* task id -> event types published on progress:task:{id}
    pc,              \* worker -> position of its consumer coroutine
    cur,             \* worker -> message (task id) its handler is working on, 0 if none
    stage,           \* worker -> index into ParseTicks of the next progress tick
    rpc,             \* worker process -> position of its cleanup coroutine
    processing_zombies, \* worker process -> rows its sweep's first statement returned
    crashes,         \* worker crashes so far
    endpoint_calls,  \* calls of the internal progress endpoint so far
    permits,         \* client class -> free permits of its class-level _semaphore
    created,         \* client class -> whether its _semaphore is not None
    global_client,   \* whether llm_client._global_client is not None
    provider,        \* settings.LLM_PROVIDER of the worker process
    cpc,             \* caller -> position inside LLMClient.call / GeminiClient.call
    attempt,         \* caller -> attempt number inside _call_with_retry
    jobs,            \* dispatch: job id -> row of dna_app.ai_tasks
    task_type,       \* dispatch: job id -> task_type column ("none": no row yet)
    streams,         \* dispatch: stream name -> sequence of messages (job ids)
    groups,          \* dispatch: stream name -> last-delivered position of its group
    dispatched,      \* dispatch: job id -> handler its message was given to
    polling,         \* dispatch: worker -> index of the stream its loop reads next
    swept,           \* dispatch: whether the cleanup loop has swept in this interval
    templates,       \* template id -> committed row of the templates table
    template_versions, \* committed rows of the template_versions table
    tx,              \* session -> its open transaction on a template, if any
    row_lock,        \* template id -> session holding the row lock of its UPDATE, 0 if free
    response,        \* session -> HTTP status of its last finished request, 0 if none
    history,         \* committed edits and restores, in commit order
    task,            \* socket: the job's row of dna_app.ai_tasks
    wstep,           \* socket: position of the worker's handler for the job
    ticks,           \* socket: progress events the handler has published
    subscribed,      \* socket: connections whose pubsub is subscribed to the job's channel
    inbox,           \* socket: connection -> messages its pubsub received, not yet forwarded
    conn,            \* socket: connection -> position of websocket_endpoint
    task_status,     \* socket: connection -> status its first SELECT returned
    sent,            \* socket: connection -> events sent to the client, in order
    call_provider,   \* retry: client class whose _call_with_retry is running
    call_pc,         \* retry: position inside _call_with_retry
    call_attempt,    \* retry: the loop variable attempt
    call_errors,     \* retry: kinds of the errors the provider calls raised, in order
    call_waits,      \* retry: the wait_time of every asyncio.sleep, in order
    wanted,          \* extractor: the JSON text x the model was asked for
    fenced_as,       \* extractor: how the response wraps it
    extractor,       \* extractor: the client class whose extract_json runs
    text,            \* extractor: the local variable text, a sequence of characters
    extract_pc,      \* extractor: position inside extract_json
    json_str,        \* extractor: what extract_json returned or raised
    file_tasks,      \* build: the ai_tasks rows of one template file, in insertion order
    parse_stream,    \* build: the template:parse stream, a sequence of task ids
    build_pc,        \* build: request -> position of build_template_from_file
    build_task_id,   \* build: request -> the task_id it answered with, 0 if none yet
    store_up,        \* outage: whether PostgreSQL answers
    redis_up,        \* outage: whether Redis (stream and pub/sub) answers
    msg_pc,          \* outage: position of _process_message / _handle_parse_task
    msg_row,         \* outage: the row of the job the message refers to
    msg_pending,     \* outage: whether the message is in the group's pending set
    msg_events,      \* outage: event types published on the job's channel
    msg_cause,       \* outage: what raised inside the handler's try block, if anything
    ENABLE_SELF_HEALING, \* parse: the module constant of agents/template.py
    parse_pc,        \* parse: position inside parse_document
    llm_calls,       \* parse: call_purpose of every _call_llm of this run, in order
    parse_template,  \* parse: the local variable template
    parse_errors,    \* parse: errors of the first validate_template
    parse_warnings,  \* parse: warnings of the first validate_template
    parse_new_errors, \* parse: new_errors of the validation after the self-heal
    parse_raised,    \* parse: the exception parse_document ended with, if any
    metadata,        \* parse: template["metadata"] as _enrich_template sets it
    client_state,    \* send: websocket.client_state of the endpoint's connection
    handler_pc,      \* send: position of websocket_endpoint after its verification
    listener_task,   \* send: the listen_redis task, if it was created
    connection_alive, \* send: the flag connection_alive
    channel_subscribed, \* send: whether Redis holds the pubsub's subscription
    pubsub,          \* send: messages the pubsub received, not yet read by the listener
    unsubscribes,    \* send: calls of pubsub.unsubscribe so far
    failed_in,       \* send: where safe_send_json first returned False, if anywhere
    forwards,        \* send: messages the listener has sent to the client
    late_forwards,   \* send: messages the listener tried to send after that failure
    published,       \* send: messages published on the job's channel so far
    pongs            \* send: pings of the client answered so far

fabric_vars == <<ai_tasks, stream, last_delivered, pel, events, pc, cur,
                 stage, rpc, processing_zombies, crashes, endpoint_calls>>
gateway_vars == <<permits, created, global_client, provider, cpc, attempt>>
dispatch_vars == <<jobs, task_type, streams, groups, dispatched, polling, swept>>
template_vars == <<templates, template_versions, tx, row_lock, response, history>>
socket_vars == <<task, wstep, ticks, subscribed, inbox, conn, task_status, sent>>
retry_vars == <<call_provider, call_pc, call_attempt, call_errors, call_waits>>
extract_vars == <<wanted, fenced_as, extractor, text, extract_pc, json_str>>
build_vars == <<file_tasks, parse_stream, build_pc, build_task_id>>
outage_vars == <<store_up, redis_up, msg_pc, msg_row, msg_pending, msg_events, msg_cause>>
parse_vars == <<ENABLE_SELF_HEALING, parse_pc, llm_calls, parse_template, parse_errors,
                parse_warnings, parse_new_errors, parse_raised, metadata>>
send_vars == <<client_state, handler_pc, listener_task, connection_alive,
               channel_subscribed, pubsub, unsubscribes, failed_in, forwards,
               late_forwards, published, pongs>>
later_vars == <<outage_vars, parse_vars, send_vars>>
earlier_vars == <<fabric_vars, gateway_vars, dispatch_vars, template_vars, socket_vars,
                  retry_vars, extract_vars, build_vars>>
vars == <<ai_tasks, stream, last_delivered, pel, events, pc, cur,
          stage, rpc, processing_zombies, crashes, endpoint_calls,
          permits, created, global_client, provider, cpc, attempt,
          jobs, task_type, streams, groups, dispatched, polling, swept,
          templates, template_versions, tx, row_lock, response, history,
          task, wstep, ticks, subscribed, inbox, conn, task_status, sent,
          call_provider, call_pc, call_attempt, call_errors, call_waits,
          wanted, fenced_as, extractor, text, extract_pc, json_str,
          file_tasks, parse_stream, build_pc, build_task_id,
          store_up, redis_up, msg_pc, msg_row, msg_pending, msg_events, msg_cause,
          ENABLE_SELF_HEALING, parse_pc, llm_calls, parse_template, parse_errors,
          parse_warnings, parse_new_errors, parse_raised, metadata,
          client_state, handler_pc, listener_task, connection_alive,
          channel_subscribed, pubsub, unsubscribes, failed_in, forwards,
          late_forwards, published, pongs>>

\* ---- the task store -------------------------------------------------------
NoRow ==
    [status |-> "none", progress |-> NONE, error |-> NULL, result |-> NULL,
     cost_usd |-> NULL, created_at |-> NONE, started_at |-> NONE,
     completed_at |-> NONE]

\* INSERT INTO ai_tasks (..., status) VALUES (..., 'pending'); progress defaults to 0
InsertTask ==
    [status |-> "pending", progress |-> 0, error |-> NULL, result |-> NULL,
     cost_usd |-> NULL, created_at |-> 0, started_at |-> NONE,
     completed_at |-> NONE]

\* the worker's store client: one UPDATE ... WHERE id = $1
UpdateTaskStatus(row, st, prog, err) ==
    [row EXCEPT
        !.status = st,
        !.progress = IF prog = NONE THEN @ ELSE prog,
        !.error = IF err = NULL THEN @ ELSE err,
        !.started_at = IF st = "processing" /\ @ = NONE THEN 0 ELSE @,
        !.completed_at = IF st \in Terminal THEN 0 ELSE @]

\* the worker's store client: UPDATE ... SET status = 'completed', ... WHERE id = $1
SaveTaskResult(row, res, cost) ==
    [row EXCEPT
        !.status = "completed",
        !.progress = 100,
        !.result = res,
        !.cost_usd = IF cost = NULL THEN @ ELSE cost,
        !.completed_at = 0]

\* the dashboard's task service: dynamic UPDATE ... WHERE id = $1
\* ('started_at' is never an element of the updates list, so the
\*  started_at = NOW() clause is added on every 'processing' update)
DashUpdateTaskStatus(row, st, prog, res, err) ==
    [row EXCEPT
        !.status = st,
        !.progress = IF prog = NONE THEN @ ELSE prog,
        !.result = IF res = NULL THEN @ ELSE res,
        !.error = IF err = NULL THEN @ ELSE err,
        !.started_at = IF st = "processing" THEN 0 ELSE @,
        !.completed_at = IF st \in Terminal THEN 0 ELSE @]

\* variant for C14: a cancel that is not guarded by the state
CancelMatchesAnyRow(row) == row.status # "none"

\* UPDATE ... SET status = 'cancelled' ... WHERE id = $1 AND status IN ('pending','processing')
CancelMatches(row) == row.status \in {"pending", "processing"}

CancelTask(row) ==
    IF CancelMatches(row)
    THEN [row EXCEPT !.status = "cancelled", !.completed_at = 0]
    ELSE row

\* variant for C7: a sweep that waits for the pending timeout instead
ProcessingZombieAfterTwenty(row) ==
    /\ row.status = "processing"
    /\ row.started_at # NONE
    /\ row.started_at > PendingTimeout

\* WHERE status = 'processing' AND started_at < NOW() - INTERVAL '15 minutes'
ProcessingZombie(row) ==
    /\ row.status = "processing"
    /\ row.started_at # NONE
    /\ row.started_at > ProcessingTimeout

\* variant for C8: a second statement that is not guarded by the state
CreatedLongAgo(row) ==
    /\ row.created_at # NONE
    /\ row.created_at > PendingTimeout

\* WHERE status = 'pending' AND created_at < NOW() - INTERVAL '20 minutes'
PendingZombie(row) ==
    /\ row.status = "pending"
    /\ row.created_at # NONE
    /\ row.created_at > PendingTimeout

\* variant for C6: a first statement that fails nothing
ReapNothing(row) == row

\* UPDATE ... SET status = 'failed', error = ..., completed_at = NOW()
ReapProcessing(row) ==
    IF ProcessingZombie(row)
    THEN [row EXCEPT !.status = "failed", !.error = ProcessingTimeoutError,
                     !.completed_at = 0]
    ELSE row

\* variant for C29: a sweep that fails the job without stamping completed_at
ReapPendingUnstamped(row) ==
    IF PendingZombie(row)
    THEN [row EXCEPT !.status = "failed", !.error = PendingTimeoutError]
    ELSE row

ReapPending(row) ==
    IF PendingZombie(row)
    THEN [row EXCEPT !.status = "failed", !.error = PendingTimeoutError,
                     !.completed_at = 0]
    ELSE row

\* a timestamp one tick later; cap: the age past which the code's
\* comparisons of this column no longer change
Older(a, cap) == IF a = NONE THEN NONE
                 ELSE IF a + TickMinutes > cap THEN cap ELSE a + TickMinutes

Aged(row) ==
    [row EXCEPT !.created_at = Older(@, PendingTimeout + TickMinutes),
                !.started_at = Older(@, ProcessingTimeout + TickMinutes),
                !.completed_at = Older(@, TickMinutes)]

\* ---- initial state --------------------------------------------------------
FabricInit ==
    /\ ai_tasks = [t \in Tasks |-> NoRow]
    /\ stream = <<>>
    /\ last_delivered = 0
    /\ pel = {}
    /\ events = [t \in Tasks |-> {}]
    /\ pc = [w \in Workers |-> "idle"]
    /\ cur = [w \in Workers |-> 0]
    /\ stage = [w \in Workers |-> 0]
    /\ rpc = [w \in Workers |-> "processing_zombies"]
    /\ processing_zombies = [w \in Workers |-> {}]
    /\ crashes = 0
    /\ endpoint_calls = 0

GatewayIdle ==
    /\ permits = [c \in {"anthropic", "gemini"} |-> 0]
    /\ created = [c \in {"anthropic", "gemini"} |-> FALSE]
    /\ global_client = FALSE
    /\ cpc = [k \in Callers |-> "none"]
    /\ attempt = [k \in Callers |-> 0]

\* the streams named in the code
StreamNames ==
    {"template:parse", "template:edit", "template:review", "document:generate",
     "task:default"}

DispatchIdle ==
    /\ jobs = [j \in Jobs |-> NoRow]
    /\ task_type = [j \in Jobs |-> "none"]
    /\ streams = [s \in StreamNames |-> <<>>]
    /\ groups = [s \in StreamNames |-> 0]
    /\ dispatched = [j \in Jobs |-> "none"]
    /\ polling = [w \in Workers |-> 1]
    /\ swept = FALSE

\* no template yet, no transaction open
NoTemplate == [version_number |-> 0, template_structure |-> NULL,
               restored_from_version |-> NONE]
NoTx == [pc |-> "idle", op |-> "none", template_id |-> 0, version_number |-> 0,
         old_version |-> 0, template_structure |-> NULL]

TemplatesIdle ==
    /\ templates = [t \in TemplateIds |-> NoTemplate]
    /\ template_versions = {}
    /\ tx = [s \in Sessions |-> NoTx]
    /\ row_lock = [t \in TemplateIds |-> 0]
    /\ response = [s \in Sessions |-> 0]
    /\ history = <<>>

\* ---- dashboard: submit, cancel, internal progress endpoint ----------------
\* create_task: INSERT the pending row, then XADD the message to template:parse
\* what extract_json hands back: the extracted text, or a ValueError
Returned(t) == [raised |-> FALSE, text |-> t]
ValueError == [raised |-> TRUE, text |-> <<>>]

ExtractIdle ==
    /\ wanted = <<>>
    /\ fenced_as = "none"
    /\ extractor = "none"
    /\ text = <<>>
    /\ extract_pc = "idle"
    /\ json_str = ValueError

BuildIdle ==
    /\ file_tasks = <<>>
    /\ parse_stream = <<>>
    /\ build_pc = [r \in Requests |-> "idle"]
    /\ build_task_id = [r \in Requests |-> 0]

\* a job was submitted (row pending, message on the stream), both services up
OutageIdle ==
    /\ store_up = TRUE
    /\ redis_up = TRUE
    /\ msg_pc = "idle"
    /\ msg_row = InsertTask
    /\ msg_pending = FALSE
    /\ msg_events = {}
    /\ msg_cause = "none"

\* ---- JSON values as json.loads returns them ---------------------------------
\* a str, a number (confidences in hundredths), a bool, a list, a dict
Str(s) == [kind |-> "string", s |-> s]
Num(n) == [kind |-> "number", n |-> n]
Bool(b) == [kind |-> "bool", b |-> b]
List(items) == [kind |-> "array", items |-> items]
Dict(fields) == [kind |-> "object", fields |-> fields]

\* key in v: a key of a dict, an element of a list, a substring of a str (the
\* strings of the inputs are no longer than a key); TypeError for the rest
InRaises(v) == v.kind \in {"number", "bool"}

In(key, v) ==
    IF v.kind = "object" THEN key \in DOMAIN v.fields
    ELSE IF v.kind = "array" THEN \E i \in 1..Len(v.items) : v.items[i] = Str(key)
    ELSE v.kind = "string" /\ v.s = key

\* v.get(key, default): AttributeError unless v is a dict
Get(v, key, default) ==
    IF key \in DOMAIN v.fields THEN v.fields[key] ELSE default

\* what "for x in v" iterates over: the elements of a list, the characters of
\* a str (the strings of the inputs have at most one), the keys of a dict;
\* TypeError for a number or a bool
Iterated(v) ==
    IF v.kind = "array" THEN v.items
    ELSE IF v.kind = "string" THEN (IF v.s = "" THEN <<>> ELSE <<Str(v.s)>>)
    ELSE LET RECURSIVE Keys(_)
             Keys(S) == IF S = {} THEN <<>>
                        ELSE LET k == CHOOSE k \in S : TRUE
                             IN  <<Str(k)>> \o Keys(S \ {k})
         IN  Keys(DOMAIN v.fields)

\* bool(v)
Truthy(v) ==
    IF v.kind = "bool" THEN v.b
    ELSE IF v.kind = "number" THEN v.n # 0
    ELSE IF v.kind = "string" THEN v.s # ""
    ELSE IF v.kind = "array" THEN v.items # <<>>
    ELSE DOMAIN v.fields # {}

\* a number in hundredths; True is 1 and False is 0
Hundredths(v) == IF v.kind = "bool" THEN (IF v.b THEN 100 ELSE 0) ELSE v.n

\* ---- template_validator.py ----------------------------------------------------
ValidationError(error_type, section, index, field) ==
    [error_type |-> error_type, section |-> section, index |-> index, field |-> field]

MissingFields(o, required, section, index) ==
    LET missing == SelectSeq(required, LAMBDA f : f \notin DOMAIN o.fields)
    IN  [i \in 1..Len(missing) |->
            ValidationError("missing_field", section, index, missing[i])]

NotStrings(o, fields, section, index) ==
    LET bad == SelectSeq(fields,
                   LAMBDA f : f \in DOMAIN o.fields /\ o.fields[f].kind # "string")
    IN  [i \in 1..Len(bad) |->
            ValidationError("invalid_type", section, index, bad[i])]

validate_fixed_section(section, index) ==
    IF section.kind # "object"
    THEN <<ValidationError("invalid_type", "fixed", index, "section")>>
    ELSE MissingFields(section, <<"id", "title", "content">>, "fixed", index)
         \o NotStrings(section, <<"id", "title", "content">>, "fixed", index)

validate_fillable_section(section, index) ==
    IF section.kind # "object"
    THEN <<ValidationError("invalid_type", "fillable", index, "section")>>
    ELSE
      LET f == section.fields
          has(k) == k \in DOMAIN f
          one(error_type, k) == <<ValidationError(error_type, "fillable", index, k)>>
      IN  MissingFields(section, <<"id", "title", "type", "semantic_tags">>,
                        "fillable", index)
          \o NotStrings(section, <<"id", "title">>, "fillable", index)
          \o (IF ~has("type") THEN <<>>
              ELSE IF f["type"].kind # "string" THEN one("invalid_type", "type")
              ELSE IF f["type"].s \notin {"table", "paragraph", "list", "field"}
                   THEN one("invalid_value", "type")
              ELSE <<>>)
          \o (IF ~has("semantic_tags") THEN <<>>
              ELSE IF f["semantic_tags"].kind # "array"
                   THEN one("invalid_type", "semantic_tags")
              ELSE IF f["semantic_tags"].items = <<>>
                   THEN one("invalid_value", "semantic_tags")
              ELSE IF \E i \in 1..Len(f["semantic_tags"].items) :
                          f["semantic_tags"].items[i].kind # "string"
                   THEN one("invalid_type", "semantic_tags")
              ELSE <<>>)
          \o (IF ~has("mandatory_confidence") THEN <<>>
              ELSE IF f["mandatory_confidence"].kind \notin {"number", "bool"}
                   THEN one("invalid_type", "mandatory_confidence")
              ELSE IF ~(0 <= Hundredths(f["mandatory_confidence"])
                        /\ Hundredths(f["mandatory_confidence"]) <= 100)
                   THEN one("invalid_value", "mandatory_confidence")
              ELSE <<>>)
          \o (IF has("is_mandatory") /\ f["is_mandatory"].kind # "bool"
              THEN one("invalid_type", "is_mandatory")
              ELSE <<>>)

RECURSIVE Concat(_)
Concat(seqs) == IF seqs = <<>> THEN <<>> ELSE Head(seqs) \o Concat(Tail(seqs))

Raises == [raised |-> TRUE, errors |-> <<>>, warnings |-> <<>>]
Returns(errors, warnings) == [raised |-> FALSE, errors |-> errors, warnings |-> warnings]

\* _validate_structure: "field not in template" and template[field] are
\* written for a dict; a number raises at the first test, a list or a str at
\* the subscript of a field it contains
validate_structure(template) ==
    LET top == <<"document_title", "fixed_sections", "fillable_sections">>
        has(k) == In(k, template)
        missing == SelectSeq(top, LAMBDA k : ~has(k))
        sections(k, validate_section(_, _)) ==
            IF ~has(k) THEN <<>>
            ELSE IF template.fields[k].kind # "array"
                 THEN <<ValidationError("invalid_type", "top", NONE, k)>>
            ELSE Concat([i \in 1..Len(template.fields[k].items) |->
                            validate_section(template.fields[k].items[i], i - 1)])
    IN  IF InRaises(template) THEN Raises
        ELSE IF template.kind # "object" /\ \E k \in {top[i] : i \in 1..3} : has(k)
             THEN Raises
        ELSE IF template.kind # "object"
             THEN Returns([i \in 1..3 |->
                              ValidationError("missing_field", "top", NONE, top[i])],
                          <<>>)
        ELSE Returns(
               [i \in 1..Len(missing) |->
                   ValidationError("missing_field", "top", NONE, missing[i])]
               \o (IF ~has("document_title") THEN <<>>
                   ELSE IF template.fields["document_title"].kind # "string"
                        THEN <<ValidationError("invalid_type", "top", NONE,
                                               "document_title")>>
                   ELSE IF template.fields["document_title"].s \in {"", " "}
                        THEN <<ValidationError("invalid_value", "top", NONE,
                                               "document_title")>>
                   ELSE <<>>)
               \o sections("fixed_sections", validate_fixed_section)
               \o sections("fillable_sections", validate_fillable_section),
               <<>>)

\* _validate_semantics: template.get and section.get are written for dicts
\* (AttributeError otherwise), "id" in s for a container, set(ids) for
\* hashable ids, "<" for a number and len() for a sized value
validate_semantics(template) ==
    LET \* [s.get("id") for s in template.get(key, []) if "id" in s]
        IdsRaise(v) ==
            \/ v.kind \in {"number", "bool"}
            \/ \E i \in 1..Len(Iterated(v)) :
                  \/ InRaises(Iterated(v)[i])
                  \/ In("id", Iterated(v)[i]) /\ Iterated(v)[i].kind # "object"
        Ids(v) ==
            LET with_id == SelectSeq(Iterated(v), LAMBDA s : In("id", s))
            IN  [i \in 1..Len(with_id) |-> with_id[i].fields["id"]]
        \* len(ids) != len(set(ids))
        Unhashable(ids) == \E i \in 1..Len(ids) : ids[i].kind \in {"array", "object"}
        Duplicates(ids) == Len(ids) # Cardinality({ids[i] : i \in 1..Len(ids)})
        \* section.get("is_mandatory") and section.get("mandatory_confidence", 0) < 0.85
        LowConfidenceRaises(section) ==
            \/ section.kind # "object"
            \/ /\ Truthy(Get(section, "is_mandatory", Bool(FALSE)))
               /\ Get(section, "mandatory_confidence", Num(0)).kind
                      \notin {"number", "bool"}
        LowConfidence(section) ==
            /\ Truthy(Get(section, "is_mandatory", Bool(FALSE)))
            /\ Hundredths(Get(section, "mandatory_confidence", Num(0))) < 85
        \* len(s.get("semantic_tags", [])) == 0
        NoTagsRaises(section) ==
            Get(section, "semantic_tags", List(<<>>)).kind \in {"number", "bool"}
        NoTags(section) ==
            LET tags == Get(section, "semantic_tags", List(<<>>))
            IN  IF tags.kind = "array" THEN tags.items = <<>>
                ELSE IF tags.kind = "string" THEN tags.s = ""
                ELSE DOMAIN tags.fields = {}
        Warning(error_type) == ValidationError(error_type, "top", NONE, "warning")
    IN
    IF template.kind # "object" THEN Raises
    ELSE
      LET fillable == Get(template, "fillable_sections", List(<<>>))
          fixed == Get(template, "fixed_sections", List(<<>>))
      IN  IF IdsRaise(fillable) \/ IdsRaise(fixed) THEN Raises
          ELSE IF Unhashable(Ids(fillable)) \/ Unhashable(Ids(fixed)) THEN Raises
          ELSE IF \E i \in 1..Len(Iterated(fillable)) :
                      LowConfidenceRaises(Iterated(fillable)[i]) THEN Raises
          ELSE IF \E i \in 1..Len(Iterated(fillable)) :
                      NoTagsRaises(Iterated(fillable)[i]) THEN Raises
          ELSE
            LET low == SelectSeq(Iterated(fillable), LowConfidence)
                total_sections == Len(Ids(fillable)) + Len(Ids(fixed))
            IN  Returns(<<>>,
                  (IF Duplicates(Ids(fillable)) THEN <<Warning("duplicate_id")>>
                   ELSE <<>>)
                  \o (IF Duplicates(Ids(fixed)) THEN <<Warning("duplicate_id")>>
                      ELSE <<>>)
                  \o [i \in 1..Len(low) |-> Warning("low_confidence_mandatory")]
                  \o (IF total_sections > 150 THEN <<Warning("excessive_sections")>>
                      ELSE IF total_sections = 0 THEN <<Warning("no_sections")>>
                      ELSE <<>>)
                  \o (IF \E i \in 1..Len(Iterated(fillable)) :
                            NoTags(Iterated(fillable)[i])
                      THEN <<Warning("missing_semantic_tags")>>
                      ELSE <<>>))

\* variant for C33: a validation that blocks on warnings as well
validate_strictly(template) ==
    IF validate_structure(template).raised THEN Raises
    ELSE IF validate_semantics(template).raised THEN Raises
    ELSE Returns(validate_structure(template).errors
                     \o validate_semantics(template).warnings,
                 validate_semantics(template).warnings)

\* TemplateValidator.validate / validate_template
validate_template(template) ==
    IF validate_structure(template).raised THEN Raises
    ELSE IF validate_semantics(template).raised THEN Raises
    ELSE Returns(validate_structure(template).errors,
                 validate_semantics(template).warnings)

\* ---- the parse pipeline of TemplateAgent.parse_document -------------------
\* what the language model may answer with, after extract_json and json.loads
LlmOutputs ==
    LET FixedSection == Dict("id" :> Str("f1") @@ "title" :> Str("T")
                             @@ "content" :> Str("C"))
        Fillable(id) == Dict("id" :> Str(id) @@ "title" :> Str("T")
                             @@ "type" :> Str("field")
                             @@ "semantic_tags" :> List(<<Str("tag")>>))
        With(section, k, value) == Dict(k :> value @@ section.fields)
        Template(fixed, fillable) ==
            Dict("document_title" :> Str("Policy") @@ "fixed_sections" :> fixed
                 @@ "fillable_sections" :> fillable)
    IN  { Template(List(<<FixedSection>>), List(<<Fillable("a")>>)),
          Template(List(<<FixedSection>>),
                   List(<<Fillable("a"), Fillable("b"), Fillable("c")>>)),
          Template(List(<<>>), List(<<>>)),
          Template(List(<<FixedSection>>), List(<<Fillable("a"), Fillable("a")>>)),
          Template(List(<<FixedSection>>),
                   List(<<With(With(Fillable("a"), "is_mandatory", Bool(TRUE)),
                               "mandatory_confidence", Num(50))>>)),
          Dict("fixed_sections" :> List(<<FixedSection>>)
               @@ "fillable_sections" :> List(<<>>)),
          Template(List(<<FixedSection>>),
                   List(<<With(Fillable("a"), "type", Str("chart"))>>)),
          Template(List(<<FixedSection>>),
                   List(<<With(Fillable("a"), "semantic_tags", List(<<>>))>>)),
          Dict("document_title" :> Str(" ") @@ "fixed_sections" :> List(<<>>)
               @@ "fillable_sections" :> List(<<Fillable("a")>>)),
          Template(List(<<With(FixedSection, "id", List(<<>>))>>), List(<<>>)),
          Template(List(<<Num(1)>>), List(<<Fillable("a")>>)),
          Template(List(<<FixedSection>>), Str("x")),
          List(<<FixedSection>>),
          Str("x"),
          Num(5) }

NoException == [type |-> "none", errors |-> <<>>]
NoMetadata == [total_fixed_sections |-> NONE, total_fillable_sections |-> NONE,
               completion_estimate_minutes |-> NONE]

ParseIdle ==
    /\ ENABLE_SELF_HEALING = TRUE
    /\ parse_pc = "identify"
    /\ llm_calls = <<>>
    /\ parse_template = Dict(<<>>)
    /\ parse_errors = <<>>
    /\ parse_warnings = <<>>
    /\ parse_new_errors = <<>>
    /\ parse_raised = NoException
    /\ metadata = NoMetadata

\* a connection whose job was found and is not terminal: task_status was sent
SendIdle ==
    /\ client_state = "CONNECTED"
    /\ handler_pc = "subscribe"
    /\ listener_task = "none"
    /\ connection_alive = TRUE
    /\ channel_subscribed = FALSE
    /\ pubsub = <<>>
    /\ unsubscribes = 0
    /\ failed_in = "none"
    /\ forwards = 0
    /\ late_forwards = 0
    /\ published = 0
    /\ pongs = 0

LaterIdle == OutageIdle /\ ParseIdle /\ SendIdle

RetryIdle ==
    /\ call_provider = "none"
    /\ call_pc = "idle"
    /\ call_attempt = 0
    /\ call_errors = <<>>
    /\ call_waits = <<>>

SocketsIdle ==
    /\ task = NoRow
    /\ wstep = "idle"
    /\ ticks = 0
    /\ subscribed = {}
    /\ inbox = [c \in Clients |-> <<>>]
    /\ conn = [c \in Clients |-> "none"]
    /\ task_status = [c \in Clients |-> NULL]
    /\ sent = [c \in Clients |-> <<>>]

Submit(t) ==
    /\ ai_tasks[t].status = "none"
    /\ \A u \in Tasks : u < t => ai_tasks[u].status # "none"
    /\ ai_tasks' = [ai_tasks EXCEPT ![t] = InsertTask]
    /\ stream' = Append(stream, t)
    /\ UNCHANGED <<last_delivered, pel, events, pc, cur, stage, rpc, processing_zombies,
                   crashes, endpoint_calls>>

\* cancel_task of the task service returns whether the UPDATE changed a row,
\* and the route answers 400 when it did not
CancelStatusCode(row) == IF CancelMatches(row) THEN 200 ELSE 400

\* POST /api/tasks/{task_id}/cancel, for any task id
Cancel(t) ==
    /\ ai_tasks' = [ai_tasks EXCEPT ![t] = CancelTask(@)]
    /\ UNCHANGED <<stream, last_delivered, pel, events, pc, cur, stage,
                   rpc, processing_zombies, crashes, endpoint_calls>>

\* POST /api/tasks/{task_id}/progress (no auth): status is one of
\* processing|completed|failed; progress, result and error are optional.
\* The calls tried: a progress report, a completion and a failure report.
EndpointCalls ==
    { [status |-> "processing", progress |-> 40, result |-> NULL, error |-> NULL],
      [status |-> "completed", progress |-> 100, result |-> "R", error |-> NULL],
      [status |-> "failed", progress |-> NONE, result |-> NULL, error |-> EndpointError] }

Endpoint(t) ==
    /\ ai_tasks[t].status # "none"
    /\ endpoint_calls < MaxEndpointCalls
    /\ endpoint_calls' = endpoint_calls + 1
    /\ \E c \in EndpointCalls :
          /\ ai_tasks' = [ai_tasks EXCEPT
                 ![t] = DashUpdateTaskStatus(@, c.status, c.progress, c.result, c.error)]
          /\ events' = [events EXCEPT
                 ![t] = IF c.progress # NONE THEN @ \cup {"progress_update"} ELSE @]
    /\ UNCHANGED <<stream, last_delivered, pel, pc, cur, stage, rpc, processing_zombies,
                   crashes>>

\* ---- worker: consumer loop and parse handler ------------------------------
\* _consume_stream: XREADGROUP ... streams={template:parse: '>'} count=1
ReadStreamGroup(w) ==
    /\ pc[w] = "idle"
    /\ last_delivered < Len(stream)
    /\ last_delivered' = last_delivered + 1
    /\ pel' = pel \cup {stream[last_delivered + 1]}
    /\ cur' = [cur EXCEPT ![w] = stream[last_delivered + 1]]
    /\ pc' = [pc EXCEPT ![w] = "claim"]
    /\ UNCHANGED <<ai_tasks, stream, events, stage, rpc, processing_zombies, crashes,
                   endpoint_calls>>

\* _handle_parse_task, first store call: update_task_status('processing', 0),
\* then publish_progress(0). An exception of the store or of Redis lands in
\* the handler's "except Exception" branch.
ClaimWrite(row) == UpdateTaskStatus(row, "processing", 0, NULL)

HandlerClaim(w) ==
    /\ pc[w] = "claim"
    /\ \/ /\ ai_tasks' = [ai_tasks EXCEPT ![cur[w]] = ClaimWrite(@)]
          /\ events' = [events EXCEPT ![cur[w]] = @ \cup {"progress_update"}]
          /\ pc' = [pc EXCEPT ![w] = "tick"]
          /\ stage' = [stage EXCEPT ![w] = 1]
       \/ /\ ai_tasks' = [ai_tasks EXCEPT ![cur[w]] = ClaimWrite(@)]
          /\ pc' = [pc EXCEPT ![w] = "fail"]
          /\ UNCHANGED <<events, stage>>
       \/ /\ pc' = [pc EXCEPT ![w] = "fail"]
          /\ UNCHANGED <<ai_tasks, events, stage>>
    /\ UNCHANGED <<stream, last_delivered, pel, cur, rpc, processing_zombies, crashes,
                   endpoint_calls>>

\* one progress tick: publish_progress(p, step), update_task_status('processing', p),
\* then the pipeline work that follows the tick; the work (or Redis, or the
\* store) may raise, which lands in one of the handler's except branches
TickWrite(row, p) == UpdateTaskStatus(row, "processing", p, NULL)

HandlerTick(w) ==
    /\ pc[w] = "tick"
    /\ events' = [events EXCEPT ![cur[w]] = @ \cup {"progress_update"}]
    /\ ai_tasks' = [ai_tasks EXCEPT ![cur[w]] = TickWrite(@, ParseTicks[stage[w]])]
    /\ \/ /\ stage[w] < Len(ParseTicks)
          /\ pc' = pc
          /\ stage' = [stage EXCEPT ![w] = @ + 1]
       \/ /\ stage[w] = Len(ParseTicks)
          /\ pc' = [pc EXCEPT ![w] = "save"]
          /\ stage' = [stage EXCEPT ![w] = 0]
       \/ /\ pc' = [pc EXCEPT ![w] = "fail"]
          /\ stage' = [stage EXCEPT ![w] = 0]
    /\ UNCHANGED <<stream, last_delivered, pel, cur, rpc, processing_zombies, crashes,
                   endpoint_calls>>

\* save_task_result(task_id, template, cost, tokens, duration)
CompleteWrite(row) == SaveTaskResult(row, "R", "cost")

HandlerSave(w) ==
    /\ pc[w] = "save"
    /\ \/ /\ ai_tasks' = [ai_tasks EXCEPT ![cur[w]] = CompleteWrite(@)]
          /\ pc' = [pc EXCEPT ![w] = "publish_completion"]
       \/ /\ pc' = [pc EXCEPT ![w] = "fail"]
          /\ UNCHANGED ai_tasks
    /\ UNCHANGED <<stream, last_delivered, pel, events, cur, stage, rpc, processing_zombies,
                   crashes, endpoint_calls>>

\* publish_completion(task_id, result_summary); the handler then returns,
\* unless the publication raised or, after it, one of the remaining statements
\* of the try block did (telemetry, template['metadata'][...] in the log lines)
HandlerPublishCompletion(w) ==
    /\ pc[w] = "publish_completion"
    /\ \/ /\ events' = [events EXCEPT ![cur[w]] = @ \cup {"task_complete"}]
          /\ pc' = [pc EXCEPT ![w] = "ack"]
       \/ /\ pc' = [pc EXCEPT ![w] = "fail"]
          /\ UNCHANGED events
       \/ /\ events' = [events EXCEPT ![cur[w]] = @ \cup {"task_complete"}]
          /\ pc' = [pc EXCEPT ![w] = "fail"]
    /\ UNCHANGED <<ai_tasks, stream, last_delivered, pel, cur, stage,
                   rpc, processing_zombies, crashes, endpoint_calls>>

\* variant for C31: a failure write that does not record the error text
FailWriteWithoutText(row) == UpdateTaskStatus(row, "failed", NONE, NULL)

\* _handle_task_error, store call: update_task_status('failed', error=...);
\* an exception here leaves the handler, and _process_message does not ack
FailWrite(row) == UpdateTaskStatus(row, "failed", NONE, HandlerError)

HandlerFail(w) ==
    /\ pc[w] = "fail"
    /\ \/ /\ ai_tasks' = [ai_tasks EXCEPT ![cur[w]] = FailWrite(@)]
          /\ pc' = [pc EXCEPT ![w] = "publish_error"]
          /\ cur' = cur
       \/ /\ pc' = [pc EXCEPT ![w] = "idle"]
          /\ cur' = [cur EXCEPT ![w] = 0]
          /\ UNCHANGED ai_tasks
    /\ UNCHANGED <<stream, last_delivered, pel, events, stage, rpc, processing_zombies,
                   crashes, endpoint_calls>>

\* _handle_task_error, publish_error(task_id, ...); the handler then returns
HandlerPublishError(w) ==
    /\ pc[w] = "publish_error"
    /\ \/ /\ events' = [events EXCEPT ![cur[w]] = @ \cup {"task_error"}]
          /\ pc' = [pc EXCEPT ![w] = "ack"]
          /\ cur' = cur
       \/ /\ pc' = [pc EXCEPT ![w] = "idle"]
          /\ cur' = [cur EXCEPT ![w] = 0]
          /\ UNCHANGED events
    /\ UNCHANGED <<ai_tasks, stream, last_delivered, pel, stage, rpc, processing_zombies,
                   crashes, endpoint_calls>>

\* _process_message after the handler returned: XACK; an exception of XACK
\* is caught and logged, the message stays pending
AckMessage(w) ==
    /\ pc[w] = "ack"
    /\ \/ pel' = pel \ {cur[w]}
       \/ UNCHANGED pel
    /\ pc' = [pc EXCEPT ![w] = "idle"]
    /\ cur' = [cur EXCEPT ![w] = 0]
    /\ UNCHANGED <<ai_tasks, stream, last_delivered, events, stage, rpc, processing_zombies,
                   crashes, endpoint_calls>>

\* the worker process dies and is started again: StreamConsumer() draws a
\* fresh consumer_id, so nothing of the previous consumer is carried over
Crash(w) ==
    /\ crashes < MaxCrashes
    /\ pc[w] # "idle"
    /\ crashes' = crashes + 1
    /\ pc' = [pc EXCEPT ![w] = "idle"]
    /\ cur' = [cur EXCEPT ![w] = 0]
    /\ stage' = [stage EXCEPT ![w] = 0]
    /\ rpc' = [rpc EXCEPT ![w] = "processing_zombies"]
    /\ processing_zombies' = [processing_zombies EXCEPT ![w] = {}]
    /\ UNCHANGED <<ai_tasks, stream, last_delivered, pel, events,
                   endpoint_calls>>

\* ---- zombie reaper (one cleanup loop per worker process) ------------------
\* cleanup_zombie_tasks, first statement; processing_zombies holds the rows
\* the UPDATE ... RETURNING gave back
ReaperProcessing(w) ==
    /\ rpc[w] = "processing_zombies"
    /\ ai_tasks' = [t \in Tasks |-> ReapProcessing(ai_tasks[t])]
    /\ processing_zombies' = [processing_zombies EXCEPT
                                 ![w] = {t \in Tasks : ProcessingZombie(ai_tasks[t])}]
    /\ rpc' = [rpc EXCEPT ![w] = "pending_zombies"]
    /\ UNCHANGED <<stream, last_delivered, pel, events, pc, cur, stage,
                   crashes, endpoint_calls>>

\* cleanup_zombie_tasks, second statement; run_cleanup_loop then sleeps
\* interval_seconds
ReaperPending(w) ==
    /\ rpc[w] = "pending_zombies"
    /\ ai_tasks' = [t \in Tasks |-> ReapPending(ai_tasks[t])]
    /\ rpc' = [rpc EXCEPT ![w] = "sleeping"]
    /\ UNCHANGED <<stream, last_delivered, pel, events, pc, cur, stage,
                   crashes, endpoint_calls, processing_zombies>>

\* ---- time ------------------------------------------------------------------
\* interval_seconds pass: every timestamp is one tick older, and the cleanup
\* loops that were asleep start their next sweep
Tick ==
    /\ \/ \E t \in Tasks : Aged(ai_tasks[t]) # ai_tasks[t]
       \/ \E w \in Workers : rpc[w] = "sleeping"
    /\ ai_tasks' = [t \in Tasks |-> Aged(ai_tasks[t])]
    /\ rpc' = [w \in Workers |->
                 IF rpc[w] = "sleeping" THEN "processing_zombies" ELSE rpc[w]]
    /\ processing_zombies' = [w \in Workers |->
                 IF rpc[w] = "sleeping" THEN {} ELSE processing_zombies[w]]
    /\ UNCHANGED <<stream, last_delivered, pel, events, pc, cur, stage,
                   crashes, endpoint_calls>>

\* ---- the fabric ------------------------------------------------------------
Init ==
    /\ FabricInit
    /\ GatewayIdle
    /\ DispatchIdle
    /\ TemplatesIdle /\ SocketsIdle /\ RetryIdle /\ ExtractIdle /\ BuildIdle /\ LaterIdle
    /\ provider = "gemini"

Next ==
    /\ UNCHANGED <<gateway_vars, dispatch_vars, template_vars, socket_vars, retry_vars, extract_vars,
                 build_vars, later_vars>>
    /\ \/ \E t \in Tasks : Submit(t)
       \/ \E t \in Tasks : Cancel(t)
       \/ \E t \in Tasks : Endpoint(t)
       \/ \E w \in Workers : ReadStreamGroup(w)
       \/ \E w \in Workers : HandlerClaim(w)
       \/ \E w \in Workers : HandlerTick(w)
       \/ \E w \in Workers : HandlerSave(w)
       \/ \E w \in Workers : HandlerPublishCompletion(w)
       \/ \E w \in Workers : HandlerFail(w)
       \/ \E w \in Workers : HandlerPublishError(w)
       \/ \E w \in Workers : AckMessage(w)
       \/ \E w \in Workers : Crash(w)
       \/ \E w \in Workers : ReaperProcessing(w)
       \/ \E w \in Workers : ReaperPending(w)
       \/ Tick

Spec == Init /\ [][Next]_vars

\* ---- the LLM gateway of one worker process ----------------------------------
Providers == {"anthropic", "gemini"}

\* variant for C10: every client instance makes a semaphore of its own
SemaphorePerInstance(isCreated, free) == max_concurrent_calls

\* __init__ of both clients: "if _semaphore is None: _semaphore = Semaphore(n)"
SemaphoreAfterInit(isCreated, free) ==
    IF isCreated THEN free ELSE max_concurrent_calls

\* whether building an agent constructs a client: get_gemini_client always
\* does, get_llm_client only while _global_client is None
ConstructsClient == provider = "gemini" \/ ~global_client

\* BaseAgent.__init__: take the client of the configured provider
CreateAgent(k) ==
    /\ cpc[k] = "none"
    /\ cpc' = [cpc EXCEPT ![k] = "ready"]
    /\ IF ConstructsClient
       THEN /\ permits' = [permits EXCEPT ![provider] =
                               SemaphoreAfterInit(created[provider], permits[provider])]
            /\ created' = [created EXCEPT ![provider] = TRUE]
       ELSE UNCHANGED <<permits, created>>
    /\ global_client' = (global_client \/ provider = "anthropic")
    /\ UNCHANGED <<provider, attempt>>

\* BaseAgent._call_llm -> client.call: reach "async with _semaphore"
Call(k) ==
    /\ cpc[k] = "ready"
    /\ cpc' = [cpc EXCEPT ![k] = "waiting"]
    /\ UNCHANGED <<permits, created, global_client, provider, attempt>>

\* the semaphore is acquired; _call_with_retry starts with attempt 0
Acquire(k) ==
    /\ cpc[k] = "waiting"
    /\ permits[provider] > 0
    /\ permits' = [permits EXCEPT ![provider] = @ - 1]
    /\ cpc' = [cpc EXCEPT ![k] = "calling"]
    /\ attempt' = [attempt EXCEPT ![k] = 0]
    /\ UNCHANGED <<created, global_client, provider>>

\* leaving "async with": the permit is released, by return or by exception
Release(k) ==
    /\ permits' = [permits EXCEPT ![provider] = @ + 1]
    /\ cpc' = [cpc EXCEPT ![k] = "ready"]
    /\ attempt' = [attempt EXCEPT ![k] = 0]
    /\ UNCHANGED <<created, global_client, provider>>

\* the provider answered: _call_with_retry returns the result
AttemptReturns(k) ==
    /\ cpc[k] = "calling"
    /\ Release(k)

\* the provider call raised: sleep 2**attempt and retry, or raise after the
\* last attempt (and at once for an error the anthropic client does not retry)
AttemptRaises(k) ==
    /\ cpc[k] = "calling"
    /\ \/ /\ attempt[k] < max_retries - 1
          /\ cpc' = [cpc EXCEPT ![k] = "backoff"]
          /\ UNCHANGED <<permits, created, global_client, provider, attempt>>
       \/ /\ attempt[k] >= max_retries - 1 \/ provider = "anthropic"
          /\ Release(k)

\* asyncio.sleep(wait_time) is over: next iteration of the retry loop
BackoffOver(k) ==
    /\ cpc[k] = "backoff"
    /\ cpc' = [cpc EXCEPT ![k] = "calling"]
    /\ attempt' = [attempt EXCEPT ![k] = @ + 1]
    /\ UNCHANGED <<permits, created, global_client, provider>>

GatewayInit ==
    /\ FabricInit
    /\ GatewayIdle
    /\ DispatchIdle
    /\ TemplatesIdle /\ SocketsIdle /\ RetryIdle /\ ExtractIdle /\ BuildIdle /\ LaterIdle
    /\ provider \in Providers

GatewayNext ==
    /\ UNCHANGED <<fabric_vars, dispatch_vars, template_vars, socket_vars, retry_vars, extract_vars,
                 build_vars, later_vars>>
    /\ \/ \E k \in Callers : CreateAgent(k)
       \/ \E k \in Callers : Call(k)
       \/ \E k \in Callers : Acquire(k)
       \/ \E k \in Callers : AttemptReturns(k)
       \/ \E k \in Callers : AttemptRaises(k)
       \/ \E k \in Callers : BackoffOver(k)

SpecGateway == GatewayInit /\ [][GatewayNext]_vars

\* ---- kinds of jobs, their streams and their handlers -------------------------
\* the kinds of the specification: parse, edit, review
TaskTypes == {"template_parse", "template_edit", "template_review"}

\* get_stream_name: stream_mapping.get(task_type, 'task:default')
get_stream_name(tt) ==
    CASE tt = "template_parse" -> "template:parse"
      [] tt = "template_review" -> "template:review"
      [] tt = "document_generate" -> "document:generate"
      [] OTHER -> "task:default"

\* consume_forever: the streams its loop reads, in the order it reads them
consumed_streams == <<"template:parse", "template:edit">>

\* consume_forever: the handler given to _consume_stream for each stream
handler_of(s) ==
    IF s = "template:parse" THEN "_handle_parse_task" ELSE "_handle_edit_task"

\* create_task(task_type, ...): INSERT the pending row, then XADD to the
\* stream get_stream_name gives for the type
CreateTask(j, tt) ==
    /\ jobs[j].status = "none"
    /\ \A i \in Jobs : i < j => jobs[i].status # "none"
    /\ jobs' = [jobs EXCEPT ![j] = InsertTask]
    /\ task_type' = [task_type EXCEPT ![j] = tt]
    /\ streams' = [streams EXCEPT ![get_stream_name(tt)] = Append(@, j)]
    /\ UNCHANGED <<groups, dispatched, polling, swept>>

\* one _consume_stream call of the loop: XREADGROUP count=1 block=5000 on the
\* stream whose turn it is; a message read is given to the stream's handler,
\* which runs to its end (completed, or failed through _handle_task_error);
\* with no message the call returns and the loop goes on to the next stream
ConsumeStream(w) ==
    LET s == consumed_streams[polling[w]] IN
    /\ polling' = [polling EXCEPT ![w] = (@ % Len(consumed_streams)) + 1]
    /\ IF groups[s] < Len(streams[s])
       THEN LET j == streams[s][groups[s] + 1] IN
            /\ groups' = [groups EXCEPT ![s] = @ + 1]
            /\ dispatched' = [dispatched EXCEPT ![j] = handler_of(s)]
            /\ \E row \in {CompleteWrite(ClaimWrite(jobs[j])),
                           FailWrite(ClaimWrite(jobs[j]))} :
                  jobs' = [jobs EXCEPT ![j] = row]
       ELSE UNCHANGED <<groups, dispatched, jobs>>
    /\ UNCHANGED <<task_type, streams, swept>>

\* cleanup_zombie_tasks: both statements of one sweep
CleanupZombieTasks ==
    /\ ~swept
    /\ jobs' = [j \in Jobs |-> ReapPending(ReapProcessing(jobs[j]))]
    /\ swept' = TRUE
    /\ UNCHANGED <<task_type, streams, groups, dispatched, polling>>

\* run_cleanup_loop: interval_seconds pass, the next sweep is due
DispatchTick ==
    /\ swept \/ \E j \in Jobs : Aged(jobs[j]) # jobs[j]
    /\ jobs' = [j \in Jobs |-> Aged(jobs[j])]
    /\ swept' = FALSE
    /\ UNCHANGED <<task_type, streams, groups, dispatched, polling>>

DispatchNext ==
    /\ UNCHANGED <<fabric_vars, gateway_vars, template_vars, socket_vars, retry_vars, extract_vars,
                 build_vars, later_vars>>
    /\ \/ \E j \in Jobs, tt \in TaskTypes : CreateTask(j, tt)
       \/ \E w \in Workers : ConsumeStream(w)
       \/ CleanupZombieTasks
       \/ DispatchTick

\* every consumer loop and the cleanup loop keep running, and time passes
DispatchFairness ==
    /\ WF_dispatch_vars(DispatchTick)
    /\ WF_dispatch_vars(CleanupZombieTasks)
    /\ \A w \in Workers : WF_dispatch_vars(ConsumeStream(w))

SpecDispatch == Init /\ [][DispatchNext]_vars /\ DispatchFairness

\* ---- Template Studio: templates and their version history -------------------
\* structures an edit may submit, and the structure a parse job produces
Structures == {"A", "B"}
ParsedStructure == "P"

\* version_number of a template row inserted without one (column default)
DefaultVersionNumber == 1

\* the committed version rows of template t with version number n
VersionRows(t, n) ==
    {v \in template_versions : v.template_id = t /\ v.version_number = n}

\* (template_id, version_number) is unique in template_versions
UniqueViolation(t, n) == VersionRows(t, n) # {}

\* variant for C20: a restore that writes back the template's current structure
CurrentStructure(t, n) == templates[t].template_structure

\* restored_structure: the template_structure of the version row being restored
RestoredStructure(t, n) ==
    (CHOOSE v \in VersionRows(t, n) : TRUE).template_structure

\* new_version = old_version + 1
NewVersion(old_version) == old_version + 1

\* variant for C21: an edit that leaves restored_from_version as it was
RestoredFromKept(s) ==
    IF tx[s].op = "restore" THEN tx[s].version_number
    ELSE templates[tx[s].template_id].restored_from_version

\* the restored_from_version written by the UPDATE of templates: the restored
\* version number in a restore, NULL in an edit
RestoredFrom(s) ==
    IF tx[s].op = "restore" THEN tx[s].version_number ELSE NONE

\* create_template of the worker's store client, called when a parse job has
\* completed: INSERT INTO templates (...); it writes no template_versions row
CreateTemplate(t) ==
    /\ templates[t] = NoTemplate
    /\ templates' = [templates EXCEPT ![t] =
                        [version_number |-> DefaultVersionNumber,
                         template_structure |-> ParsedStructure,
                         restored_from_version |-> NONE]]
    /\ UNCHANGED <<template_versions, tx, row_lock, response, history>>

\* update_template_structure, start of the transaction: SELECT
\* template_structure, version_number FROM templates WHERE id = $1 (no lock)
BeginUpdate(s, t, st) ==
    /\ tx[s].pc = "idle"
    /\ IF templates[t] = NoTemplate
       THEN /\ response' = [response EXCEPT ![s] = 404]
            /\ UNCHANGED tx
       ELSE /\ templates[t].version_number < MaxVersion
            /\ tx' = [tx EXCEPT ![s] =
                        [pc |-> "update", op |-> "edit", template_id |-> t,
                         version_number |-> 0,
                         old_version |-> templates[t].version_number,
                         template_structure |-> st]]
            /\ response' = [response EXCEPT ![s] = 0]
    /\ UNCHANGED <<templates, template_versions, row_lock, history>>

\* restore_template_version, start of the transaction: SELECT the version row
\* to restore (404 without one), then SELECT version_number FROM templates
BeginRestore(s, t, n) ==
    /\ tx[s].pc = "idle"
    /\ IF VersionRows(t, n) = {} \/ templates[t] = NoTemplate
       THEN /\ response' = [response EXCEPT ![s] = 404]
            /\ UNCHANGED tx
       ELSE /\ templates[t].version_number < MaxVersion
            /\ tx' = [tx EXCEPT ![s] =
                        [pc |-> "update", op |-> "restore", template_id |-> t,
                         version_number |-> n,
                         old_version |-> templates[t].version_number,
                         template_structure |-> RestoredStructure(t, n)]]
            /\ response' = [response EXCEPT ![s] = 0]
    /\ UNCHANGED <<templates, template_versions, row_lock, history>>

\* UPDATE templates SET template_structure = ..., version_number = new_version
\* WHERE id = ...: waits while another open transaction has updated the row
UpdateTemplates(s) ==
    /\ tx[s].pc = "update"
    /\ row_lock[tx[s].template_id] = 0
    /\ row_lock' = [row_lock EXCEPT ![tx[s].template_id] = s]
    /\ tx' = [tx EXCEPT ![s].pc = "insert"]
    /\ UNCHANGED <<templates, template_versions, response, history>>

\* INSERT INTO template_versions (template_id, new_version, ...) and the end
\* of the transaction: commit, or roll back and answer 500 when the INSERT
\* raises
InsertVersion(s) ==
    LET t == tx[s].template_id
        new_version == NewVersion(tx[s].old_version) IN
    /\ tx[s].pc = "insert"
    /\ IF UniqueViolation(t, new_version)
       THEN /\ response' = [response EXCEPT ![s] = 500]
            /\ UNCHANGED <<templates, template_versions, history>>
       ELSE /\ templates' = [templates EXCEPT ![t] =
                               [version_number |-> new_version,
                                template_structure |-> tx[s].template_structure,
                                restored_from_version |-> RestoredFrom(s)]]
            /\ template_versions' = template_versions \cup
                   {[template_id |-> t, version_number |-> new_version,
                     template_structure |-> tx[s].template_structure]}
            /\ history' = Append(history,
                   [op |-> tx[s].op, template_id |-> t,
                    restored_from_version |-> tx[s].version_number,
                    old_version |-> tx[s].old_version,
                    version_number |-> new_version])
            /\ response' = [response EXCEPT ![s] = 200]
    /\ row_lock' = [row_lock EXCEPT ![t] = 0]
    /\ tx' = [tx EXCEPT ![s] = NoTx]

\* the version numbers of a set, highest first
RECURSIVE Descending(_)
Descending(S) ==
    IF S = {} THEN <<>>
    ELSE LET hi == CHOOSE x \in S : \A y \in S : y <= x
         IN <<hi>> \o Descending(S \ {hi})

\* get_template_versions: SELECT ... WHERE template_id = $1 ORDER BY
\* version_number DESC; the version numbers of the rows returned, in order
get_template_versions(t) ==
    Descending({v.version_number : v \in {r \in template_versions : r.template_id = t}})

TemplatesNext ==
    /\ UNCHANGED <<fabric_vars, gateway_vars, dispatch_vars, socket_vars, retry_vars, extract_vars,
                 build_vars, later_vars>>
    /\ \/ \E t \in TemplateIds : CreateTemplate(t)
       \/ \E s \in Sessions, t \in TemplateIds, st \in Structures : BeginUpdate(s, t, st)
       \/ \E s \in Sessions, t \in TemplateIds, n \in 1..MaxVersion : BeginRestore(s, t, n)
       \/ \E s \in Sessions : UpdateTemplates(s)
       \/ \E s \in Sessions : InsertVersion(s)

SpecTemplates == Init /\ [][TemplatesNext]_vars

\* ---- progress over WebSocket: /ws/tasks/{task_id} ---------------------------
\* An event is the set of keys of its JSON object that the protocol speaks of:
\* its type, its status, whether it came from the job's channel, and whether
\* it carries elapsed_seconds, result_summary, error and error_type.
Event(type, status) ==
    [type |-> type, status |-> status, forwarded |-> FALSE,
     elapsed_seconds |-> FALSE, result_summary |-> FALSE,
     error |-> FALSE, error_type |-> FALSE]

\* the messages of ProgressPublisher
ProgressUpdate == [Event("progress_update", NULL) EXCEPT !.elapsed_seconds = TRUE]
TaskComplete ==
    [Event("task_complete", NULL) EXCEPT !.elapsed_seconds = TRUE,
                                         !.result_summary = TRUE]
TaskError == [Event("task_error", NULL) EXCEPT !.error = TRUE, !.error_type = TRUE]

\* the keys of the result the parse handler saves: the parsed template
ResultKeys(res) ==
    IF res = NULL THEN {}
    ELSE {"document_title", "fixed_sections", "fillable_sections", "metadata"}

\* completion_msg, built for a job whose first SELECT returned a terminal
\* status, from the row a second SELECT returns
CompletionMsg(row, st) ==
    [Event("task_complete", st) EXCEPT
        !.elapsed_seconds = TRUE,
        !.result_summary = (st = "completed" /\ row.result # NULL
                               /\ "result_summary" \in ResultKeys(row.result)),
        !.error = (st = "failed" /\ row.error # NULL),
        !.error_type = (st = "failed" /\ row.error # NULL)]

\* listen_redis stops after forwarding a message of type task_complete or
\* with a status of completed, failed or cancelled
StopsListener(e) == e.type = "task_complete" \/ e.status \in Terminal

\* redis PUBLISH: every pubsub subscribed at this instant receives the message
Publish(e) ==
    inbox' = [c \in Clients |->
                 IF c \in subscribed THEN Append(inbox[c], e) ELSE inbox[c]]

SocketSubmit ==
    /\ task.status = "none"
    /\ task' = InsertTask
    /\ UNCHANGED <<wstep, ticks, subscribed, inbox, conn, task_status, sent>>

\* _handle_parse_task, start: update to processing, publish progress 0
WorkerClaim ==
    /\ wstep = "idle" /\ task.status # "none"
    /\ task' = ClaimWrite(task)
    /\ Publish(ProgressUpdate)
    /\ wstep' = "running"
    /\ UNCHANGED <<ticks, subscribed, conn, task_status, sent>>

\* on_progress: publish a progress update, then write it to the row
WorkerProgress ==
    /\ wstep = "running" /\ ticks < MaxProgressEvents
    /\ Publish(ProgressUpdate)
    /\ task' = TickWrite(task, ParseTicks[ticks + 1])
    /\ ticks' = ticks + 1
    /\ UNCHANGED <<wstep, subscribed, conn, task_status, sent>>

WorkerSave ==
    /\ wstep = "running"
    /\ task' = CompleteWrite(task)
    /\ wstep' = "saved"
    /\ UNCHANGED <<ticks, subscribed, inbox, conn, task_status, sent>>

WorkerPublishCompletion ==
    /\ wstep = "saved"
    /\ Publish(TaskComplete)
    /\ wstep' = "done"
    /\ UNCHANGED <<task, ticks, subscribed, conn, task_status, sent>>

\* _handle_task_error: update to failed, then publish_error
WorkerFail ==
    /\ wstep = "running"
    /\ task' = FailWrite(task)
    /\ wstep' = "failing"
    /\ UNCHANGED <<ticks, subscribed, inbox, conn, task_status, sent>>

WorkerPublishError ==
    /\ wstep = "failing"
    /\ Publish(TaskError)
    /\ wstep' = "done"
    /\ UNCHANGED <<task, ticks, subscribed, conn, task_status, sent>>

\* cancel_task of the dashboard: publishes nothing
SocketCancel ==
    /\ CancelMatches(task)
    /\ task' = CancelTask(task)
    /\ UNCHANGED <<wstep, ticks, subscribed, inbox, conn, task_status, sent>>

\* websocket_endpoint, first part: accept, SELECT id, status; without a row
\* send an error and close, otherwise send the initial task_status
Connect(c) ==
    /\ conn[c] = "none"
    /\ IF task.status = "none"
       THEN /\ sent' = [sent EXCEPT ![c] = <<Event("error", NULL)>>]
            /\ conn' = [conn EXCEPT ![c] = "closed"]
            /\ UNCHANGED task_status
       ELSE /\ sent' = [sent EXCEPT ![c] = <<Event("task_status", task.status)>>]
            /\ conn' = [conn EXCEPT ![c] = "verified"]
            /\ task_status' = [task_status EXCEPT ![c] = task.status]
    /\ UNCHANGED <<task, wstep, ticks, subscribed, inbox>>

\* the job was terminal: SELECT the full row, send completion_msg, close
SendCompletion(c) ==
    /\ conn[c] = "verified" /\ task_status[c] \in Terminal
    /\ sent' = [sent EXCEPT ![c] = Append(@, CompletionMsg(task, task_status[c]))]
    /\ conn' = [conn EXCEPT ![c] = "closed"]
    /\ UNCHANGED <<task, wstep, ticks, subscribed, inbox, task_status>>

\* the job was not terminal: subscribe to its channel, send subscribed, start
\* the listener
Subscribe(c) ==
    /\ conn[c] = "verified" /\ task_status[c] \notin Terminal
    /\ subscribed' = subscribed \cup {c}
    /\ sent' = [sent EXCEPT ![c] = Append(@, Event("subscribed", NULL))]
    /\ conn' = [conn EXCEPT ![c] = "listening"]
    /\ UNCHANGED <<task, wstep, ticks, inbox, task_status>>

\* listen_redis, one message: forward it, then stop or go on
Forward(c) ==
    /\ conn[c] = "listening" /\ inbox[c] # <<>>
    /\ sent' = [sent EXCEPT ![c] = Append(@, [Head(inbox[c]) EXCEPT !.forwarded = TRUE])]
    /\ inbox' = [inbox EXCEPT ![c] = Tail(@)]
    /\ conn' = [conn EXCEPT ![c] =
                   IF StopsListener(Head(inbox[c])) THEN "stopping" ELSE "listening"]
    /\ UNCHANGED <<task, wstep, ticks, subscribed, task_status>>

\* the client goes away: WebSocketDisconnect in the receive loop
ClientDisconnect(c) ==
    /\ conn[c] = "listening"
    /\ conn' = [conn EXCEPT ![c] = "stopping"]
    /\ UNCHANGED <<task, wstep, ticks, subscribed, inbox, task_status, sent>>

\* the finally block: cancel the listener, unsubscribe, close the socket
Finally(c) ==
    /\ conn[c] = "stopping"
    /\ subscribed' = subscribed \ {c}
    /\ inbox' = [inbox EXCEPT ![c] = <<>>]
    /\ conn' = [conn EXCEPT ![c] = "closed"]
    /\ UNCHANGED <<task, wstep, ticks, task_status, sent>>

SocketNext ==
    /\ UNCHANGED <<fabric_vars, gateway_vars, dispatch_vars, template_vars, retry_vars, extract_vars,
                 build_vars, later_vars>>
    /\ \/ SocketSubmit
       \/ WorkerClaim
       \/ WorkerProgress
       \/ WorkerSave
       \/ WorkerPublishCompletion
       \/ WorkerFail
       \/ WorkerPublishError
       \/ SocketCancel
       \/ \E c \in Clients : Connect(c)
       \/ \E c \in Clients : SendCompletion(c)
       \/ \E c \in Clients : Subscribe(c)
       \/ \E c \in Clients : Forward(c)
       \/ \E c \in Clients : ClientDisconnect(c)
       \/ \E c \in Clients : Finally(c)

SpecSocket == Init /\ [][SocketNext]_vars

\* ---- the LLM gateway: _call_with_retry ---------------------------------------
\* what a provider call can raise: a rate limit (429), a transient API error
\* (5xx, timeout, connection), an authentication error, an exhausted quota,
\* another 4xx, and an exception that is not an error of the provider's API
ErrorKinds == {"rate_limited", "provider_error", "auth_failed",
               "quota_exhausted", "bad_request", "other"}
Transient == {"rate_limited", "provider_error"}
NotRetried == {"auth_failed", "quota_exhausted", "bad_request"}

\* LLMClient: "except RateLimitError" and "except APIError" (every error of
\* the provider's API, whatever its status); GeminiClient: "except Exception"
Caught(p, kind) == p = "gemini" \/ kind # "other"

\* variant for C25: the same wait before every retry
FixedWait(a) == 2

\* wait_time = 2 ** attempt
wait_time(a) == 2 ^ a

\* call(): enter _call_with_retry; the loop starts with attempt 0
StartCall(p) ==
    /\ call_pc = "idle"
    /\ call_provider' = p
    /\ call_pc' = "calling"
    /\ UNCHANGED <<call_attempt, call_errors, call_waits>>

\* the provider answered: return the result
ProviderReturns ==
    /\ call_pc = "calling"
    /\ call_pc' = "returned"
    /\ UNCHANGED <<call_provider, call_attempt, call_errors, call_waits>>

\* the provider call raised: a caught error sleeps wait_time and retries
\* unless this was the last attempt; anything else leaves the loop
ProviderRaises(kind) ==
    /\ call_pc = "calling"
    /\ call_errors' = Append(call_errors, kind)
    /\ IF Caught(call_provider, kind) /\ call_attempt < max_retries - 1
       THEN /\ call_pc' = "sleeping"
            /\ call_waits' = Append(call_waits, wait_time(call_attempt))
       ELSE /\ call_pc' = "raised"
            /\ UNCHANGED call_waits
    /\ UNCHANGED <<call_provider, call_attempt>>

\* asyncio.sleep(wait_time) is over: the next iteration of the loop
SleepOver ==
    /\ call_pc = "sleeping"
    /\ call_pc' = "calling"
    /\ call_attempt' = call_attempt + 1
    /\ UNCHANGED <<call_provider, call_errors, call_waits>>

RetryNext ==
    /\ UNCHANGED <<fabric_vars, gateway_vars, dispatch_vars, template_vars, socket_vars,
                 extract_vars, build_vars, later_vars>>
    /\ \/ \E p \in Providers : StartCall(p)
       \/ ProviderReturns
       \/ \E kind \in ErrorKinds : ProviderRaises(kind)
       \/ SleepOver

SpecRetry == Init /\ [][RetryNext]_vars

\* ---- the LLM gateway: extract_json -------------------------------------------
\* Texts are sequences of characters; positions are counted from 0 as in the
\* code, and -1 is "not found".
Whitespace == {" ", "\n", "\t"}

RECURSIVE lstrip(_)
lstrip(t) == IF t # <<>> /\ Head(t) \in Whitespace THEN lstrip(Tail(t)) ELSE t

RECURSIVE rstrip(_)
rstrip(t) ==
    IF t # <<>> /\ t[Len(t)] \in Whitespace
    THEN rstrip(SubSeq(t, 1, Len(t) - 1)) ELSE t

\* str.strip()
strip(t) == rstrip(lstrip(t))

\* t[a:b]
slice(t, a, b) == SubSeq(t, a + 1, b)

\* the positions at or after from where pat occurs in t
Occurrences(t, pat, from) ==
    {i \in from..(Len(t) - Len(pat)) : SubSeq(t, i + 1, i + Len(pat)) = pat}

\* str.find(pat, from)
find(t, pat, from) ==
    IF Occurrences(t, pat, from) = {} THEN -1
    ELSE CHOOSE i \in Occurrences(t, pat, from) :
             \A j \in Occurrences(t, pat, from) : i <= j

\* str.rfind(pat)
rfind(t, pat) ==
    IF Occurrences(t, pat, 0) = {} THEN -1
    ELSE CHOOSE i \in Occurrences(t, pat, 0) :
             \A j \in Occurrences(t, pat, 0) : j <= i

\* the backtick character (U+0060), written by name
Backtick == "BACKTICK"
Ticks == <<Backtick, Backtick, Backtick>>
JsonTicks == Ticks \o <<"j", "s", "o", "n">>

\* "Remove markdown code fences", the same in both clients
remove_fences(t) ==
    IF find(t, JsonTicks, 0) # -1
    THEN LET start == find(t, JsonTicks, 0) + 7
             end == find(t, Ticks, start)
         IN IF end # -1 THEN strip(slice(t, start, end)) ELSE t
    ELSE IF find(t, Ticks, 0) # -1
    THEN LET start == find(t, Ticks, 0) + 3
             end == find(t, Ticks, start)
         IN IF end # -1 THEN strip(slice(t, start, end)) ELSE t
    ELSE t

\* LLMClient.extract_json, "Find JSON object or array": from the first brace
\* or bracket to the last closing character of the same kind
find_object_or_array(t) ==
    LET start_brace == find(t, <<"{">>, 0)
        start_bracket == find(t, <<"[">>, 0)
        start == IF start_brace = -1 THEN start_bracket
                 ELSE IF start_bracket = -1 THEN start_brace
                 ELSE IF start_brace < start_bracket THEN start_brace
                 ELSE start_bracket
        end_char == IF start_brace = -1 THEN "]"
                    ELSE IF start_bracket = -1 THEN "}"
                    ELSE IF start = start_brace THEN "}" ELSE "]"
        end == rfind(t, <<end_char>>)
    IN IF start_brace = -1 /\ start_bracket = -1 THEN ValueError
       ELSE IF end = -1 \/ end < start THEN ValueError
       ELSE Returned(slice(t, start, end + 1))

\* GeminiClient.extract_json, the loop "for i in range(start, len(text))"
\* counting braces
RECURSIVE brace_count(_, _, _, _)
brace_count(t, start, i, count) ==
    IF i >= Len(t) THEN ValueError
    ELSE IF t[i + 1] = "{" THEN brace_count(t, start, i + 1, count + 1)
    ELSE IF t[i + 1] = "}"
    THEN IF count - 1 = 0 THEN Returned(slice(t, start, i + 1))
         ELSE brace_count(t, start, i + 1, count - 1)
    ELSE brace_count(t, start, i + 1, count)

\* GeminiClient.extract_json, "Find JSON object"
find_object(t) ==
    IF t # <<>> /\ t[1] = "{" THEN Returned(t)
    ELSE IF find(t, <<"{">>, 0) # -1
    THEN brace_count(t, find(t, <<"{">>, 0), find(t, <<"{">>, 0), 0)
    ELSE ValueError

\* well-formed JSON texts: objects, arrays and scalars, some with strings
\* that hold braces, brackets or backticks
JsonTexts ==
    { <<"{", "\"", "a", "\"", ":", "1", "}">>,
      <<"{", "\"", "a", "\"", ":", "{", "}", "}">>,
      <<"{", "\"", "a", "\"", ":", "[", "1", "]", "}">>,
      <<"{", "\"", "a", "\"", ":", "\"", "]", "\"", "}">>,
      <<"{", "\"", "a", "\"", ":", "\"", "}", "\"", "}">>,
      <<"{", "\"", "a", "\"", ":", "\"", Backtick, Backtick, Backtick, "\"", "}">>,
      <<"[", "1", ",", "2", "]">>,
      <<"[", "{", "}", "]">>,
      <<"[", "\"", "}", "\"", "]">>,
      <<"1">>,
      <<"\"", "{", "}", "\"">>,
      <<"\"", "a", "\"">> }

Fences == {"none", "json", "bare"}

\* the response text for x under a fence
Fenced(f, t) ==
    IF f = "json" THEN JsonTicks \o <<"\n">> \o t \o <<"\n">> \o Ticks
    ELSE IF f = "bare" THEN Ticks \o <<"\n">> \o t \o <<"\n">> \o Ticks
    ELSE t

ExtractInit ==
    /\ FabricInit /\ GatewayIdle /\ DispatchIdle /\ TemplatesIdle /\ SocketsIdle
    /\ RetryIdle /\ BuildIdle /\ LaterIdle
    /\ provider = "gemini"
    /\ wanted \in JsonTexts
    /\ fenced_as \in Fences
    /\ extractor \in Providers
    /\ text = Fenced(fenced_as, wanted)
    /\ extract_pc = "strip"
    /\ json_str = ValueError

\* text = text.strip()
StripText ==
    /\ extract_pc = "strip"
    /\ text' = strip(text)
    /\ extract_pc' = "fences"
    /\ UNCHANGED <<wanted, fenced_as, extractor, json_str>>

RemoveFences ==
    /\ extract_pc = "fences"
    /\ text' = remove_fences(text)
    /\ extract_pc' = "find"
    /\ UNCHANGED <<wanted, fenced_as, extractor, json_str>>

FindJson ==
    /\ extract_pc = "find"
    /\ json_str' = IF extractor = "anthropic" THEN find_object_or_array(text)
                   ELSE find_object(text)
    /\ extract_pc' = "done"
    /\ UNCHANGED <<wanted, fenced_as, extractor, text>>

ExtractNext ==
    /\ UNCHANGED <<fabric_vars, gateway_vars, dispatch_vars, template_vars, socket_vars,
                   retry_vars, build_vars, later_vars>>
    /\ \/ StripText
       \/ RemoveFences
       \/ FindJson

SpecExtract == ExtractInit /\ [][ExtractNext]_vars

\* ---- building a template from an uploaded file ------------------------------
InProgress == {"pending", "processing"}

\* "Check for existing in-progress task for this file": the rows with status
\* pending or processing and created_at > NOW() - INTERVAL '10 minutes'
ExistingTasks ==
    {i \in 1..Len(file_tasks) :
        /\ file_tasks[i].status \in InProgress
        /\ file_tasks[i].created_at < InProgressWindow}

\* build_template_from_file up to the check: with an existing task answer its
\* id, otherwise go on to create one
CheckExistingTask(r) ==
    /\ build_pc[r] = "idle"
    /\ \/ /\ ExistingTasks = {}
          /\ build_pc' = [build_pc EXCEPT ![r] = "create"]
          /\ UNCHANGED build_task_id
       \/ \E i \in ExistingTasks :
          /\ build_task_id' = [build_task_id EXCEPT ![r] = i]
          /\ build_pc' = [build_pc EXCEPT ![r] = "done"]
    /\ UNCHANGED <<file_tasks, parse_stream>>

\* task_id = uuid4(); INSERT INTO ai_tasks (..., 'pending', ...);
\* add_to_stream("template:parse", ...); answer the new id
CreateAndQueue(r) ==
    /\ build_pc[r] = "create"
    /\ file_tasks' = Append(file_tasks, InsertTask)
    /\ parse_stream' = Append(parse_stream, Len(file_tasks) + 1)
    /\ build_task_id' = [build_task_id EXCEPT ![r] = Len(file_tasks) + 1]
    /\ build_pc' = [build_pc EXCEPT ![r] = "done"]

\* a worker takes the task's message, and later saves its result
BuildWorkerClaims(i) ==
    /\ file_tasks[i].status = "pending"
    /\ file_tasks' = [file_tasks EXCEPT ![i] = ClaimWrite(@)]
    /\ UNCHANGED <<parse_stream, build_pc, build_task_id>>

BuildWorkerSaves(i) ==
    /\ file_tasks[i].status = "processing"
    /\ file_tasks' = [file_tasks EXCEPT ![i] = CompleteWrite(@)]
    /\ UNCHANGED <<parse_stream, build_pc, build_task_id>>

BuildTick ==
    /\ \E i \in 1..Len(file_tasks) : Aged(file_tasks[i]) # file_tasks[i]
    /\ file_tasks' = [i \in 1..Len(file_tasks) |-> Aged(file_tasks[i])]
    /\ UNCHANGED <<parse_stream, build_pc, build_task_id>>

BuildNext ==
    /\ UNCHANGED <<fabric_vars, gateway_vars, dispatch_vars, template_vars, socket_vars,
                   retry_vars, extract_vars, later_vars>>
    /\ \/ \E r \in Requests : CheckExistingTask(r)
       \/ \E r \in Requests : CreateAndQueue(r)
       \/ \E i \in 1..Len(file_tasks) : BuildWorkerClaims(i)
       \/ \E i \in 1..Len(file_tasks) : BuildWorkerSaves(i)
       \/ BuildTick

SpecBuild == Init /\ [][BuildNext]_vars

\* ---- the fabric under fair scheduling ---------------------------------------
\* every worker's consumer loop and cleanup loop keep running, and time passes
\* consume_forever: the consumer coroutine of a worker takes its next step
Consumer(w) ==
    \/ ReadStreamGroup(w)
    \/ HandlerClaim(w)
    \/ HandlerTick(w)
    \/ HandlerSave(w)
    \/ HandlerPublishCompletion(w)
    \/ HandlerFail(w)
    \/ HandlerPublishError(w)
    \/ AckMessage(w)

\* run_cleanup_loop: the cleanup coroutine of a worker takes its next step
Reaper(w) == ReaperProcessing(w) \/ ReaperPending(w)

Fairness ==
    /\ WF_fabric_vars(Tick)
    /\ \A w \in Workers : WF_fabric_vars(Consumer(w)) /\ WF_fabric_vars(Reaper(w))

SpecLive == Init /\ [][Next]_vars /\ Fairness

\* ---- properties ------------------------------------------------------------
Exists(t) == ai_tasks[t].status # "none"
Acked(t) == \E i \in 1..last_delivered : stream[i] = t /\ t \notin pel

AllowedEdges ==
    { <<"pending", "processing">>, <<"processing", "completed">>,
      <<"pending", "cancelled">>, <<"pending", "failed">>,
      <<"processing", "failed">>, <<"processing", "cancelled">> }

\* C1: every change of a job's state follows one of the edges Pending->Processing,
\* Processing->Completed, Pending->Cancelled, Pending->Failed, Processing->Failed,
\* Processing->Cancelled; in particular no step leaves a terminal state.
C1_OnlyAllowedEdges ==
    [][\A t \in Tasks :
          (Exists(t) /\ ai_tasks'[t].status # ai_tasks[t].status)
              => <<ai_tasks[t].status, ai_tasks'[t].status>> \in AllowedEdges]_vars

\* C2: claim succeeds (the handler goes on to its pipeline) only when the row
\* was Pending; on any other state it is a state conflict and the row is left as
\* it was.
C2_ClaimOnlyFromPending ==
    [][\A w \in Workers :
          (pc[w] = "claim" /\ pc'[w] = "tick")
              => ai_tasks[cur[w]].status = "pending"]_vars

\* C3: a handler that finds its job's row not Pending acks the message and
\* returns: it does not modify the row and publishes nothing for the job.
C3_NonPendingIsNoOp ==
    [][\A w \in Workers :
          (HandlerClaim(w) /\ ai_tasks[cur[w]].status # "pending")
              => /\ ai_tasks'[cur[w]] = ai_tasks[cur[w]]
                 /\ events'[cur[w]] = events[cur[w]]
                 /\ pc'[w] # "tick"]_vars

\* C4: complete() changes the row only when the job is Processing: on a job
\* the reaper failed or that was cancelled it leaves the row as it is.
C4_CompleteOnlyFromProcessing ==
    [][\A w \in Workers :
          (HandlerSave(w) /\ ai_tasks[cur[w]].status # "processing")
              => ai_tasks'[cur[w]] = ai_tasks[cur[w]]]_vars

\* C5: once a job is Cancelled while a worker runs its pipeline, no later step
\* of that worker (progress tick, complete, fail) changes the row, and the
\* worker publishes no task_complete for it.
C5_WorkerObservesCancel ==
    [][\A w \in Workers :
          (/\ cur[w] # 0
           /\ ai_tasks[cur[w]].status = "cancelled"
           /\ (HandlerTick(w) \/ HandlerSave(w) \/ HandlerFail(w)
                 \/ HandlerPublishCompletion(w)))
              => /\ ai_tasks'[cur[w]] = ai_tasks[cur[w]]
                 /\ "task_complete" \in events'[cur[w]]
                        => "task_complete" \in events[cur[w]]]_vars

\* C7 (as claimed): a sweep fails every job that has been Processing for 15
\* minutes or more, the exact 15-minute boundary included.
C7_ReapsAtFifteenMinutes ==
    [][\A w \in Workers : ReaperProcessing(w) =>
          \A t \in Tasks :
              (ai_tasks[t].status = "processing" /\ ai_tasks[t].started_at >= 15)
                  => /\ ai_tasks'[t].status = "failed"
                     /\ ai_tasks'[t].error = ProcessingTimeoutError
                     /\ ai_tasks'[t].completed_at = 0]_vars

\* C7 (amended): a sweep fails every job that has been Processing for more
\* than 15 minutes, with the timeout error and completed_at = now; a job
\* Processing for 15 minutes or less is left as it is.
C7_ReapsAfterFifteenMinutes ==
    [][\A w \in Workers : ReaperProcessing(w) =>
          \A t \in Tasks :
              ai_tasks[t].status = "processing" =>
                  IF ai_tasks[t].started_at > 15
                  THEN /\ ai_tasks'[t].status = "failed"
                       /\ ai_tasks'[t].error = ProcessingTimeoutError
                       /\ ai_tasks'[t].completed_at = 0
                  ELSE ai_tasks'[t] = ai_tasks[t]]_vars

\* a sweep has just failed a job that was Processing for more than 15 minutes
C7_Witness ==
    \E t \in Tasks, w \in Workers :
        /\ rpc[w] = "pending_zombies"
        /\ processing_zombies[w] = {t}
        /\ ai_tasks[t].status = "failed"
        /\ ai_tasks[t].error = ProcessingTimeoutError
        /\ ai_tasks[t].completed_at = 0
        /\ ai_tasks[t].started_at > 15

\* C8: no statement of a sweep changes a job that is Completed, Failed or
\* Cancelled; a job one reaper has failed is left as it is (error and
\* completed_at included) by every later sweep.
C8_SweepLeavesTerminalRows ==
    [][\A w \in Workers : (ReaperProcessing(w) \/ ReaperPending(w)) =>
          \A t \in Tasks :
              ai_tasks[t].status \in Terminal => ai_tasks'[t] = ai_tasks[t]]_vars

\* two reapers have swept within the same interval over the same stuck job:
\* one of them got the row back from its UPDATE, the other got nothing
C8_Witness ==
    \E t \in Tasks, w1, w2 \in Workers :
        /\ w1 # w2
        /\ rpc[w1] = "sleeping" /\ rpc[w2] = "sleeping"
        /\ processing_zombies[w1] = {t}
        /\ processing_zombies[w2] = {}
        /\ ai_tasks[t].status = "failed"
        /\ ai_tasks[t].error = ProcessingTimeoutError

C9_UnackedIsRedelivered ==
    \A t \in Tasks :
        (t \in pel /\ \A w \in Workers : cur[w] # t)
            ~> (t \notin pel \/ \E w \in Workers : cur[w] = t)

\* C10: the number of provider calls in flight in the process, each counted
\* from the moment it holds the semaphore until call() returns or raises
\* (retries and backoff sleeps included), never exceeds max_concurrent_calls.
Outstanding == Cardinality({k \in Callers : cpc[k] \in {"calling", "backoff"}})

C10_OutstandingCallsBounded == Outstanding <= max_concurrent_calls

\* the limit is reached, one call is in a backoff sleep, and a further caller
\* with an agent of its own waits at the semaphore
C10_Witness ==
    /\ Outstanding = max_concurrent_calls
    /\ \E k \in Callers : cpc[k] = "backoff"
    /\ \E k \in Callers : cpc[k] = "waiting"
    /\ \A k \in Callers : cpc[k] # "none"

\* the handler the specification names for each kind of job
KindHandler(tt) ==
    CASE tt = "template_parse" -> "_handle_parse_task"
      [] tt = "template_edit" -> "_handle_edit_task"
      [] tt = "template_review" -> "_handle_review_task"
      [] OTHER -> "none"

\* C11: with live workers, the message of every submitted job, whatever its
\* kind (parse, edit, review), is eventually read from its kind's stream and
\* given to the handler of its kind.
C11_EveryKindDispatched ==
    \A j \in Jobs :
        (jobs[j].status # "none") ~> (dispatched[j] = KindHandler(task_type[j]))

\* C12: in every state of a job row, result is non-null exactly when the job
\* is Completed, and error is non-null only when the job is Failed.
C12_ResultIffCompleted ==
    \A t \in Tasks : Exists(t) =>
        /\ (ai_tasks[t].result # NULL) <=> (ai_tasks[t].status = "completed")
        /\ (ai_tasks[t].error # NULL) => (ai_tasks[t].status = "failed")

\* C13: every job in a terminal state has exactly one of result and error
\* non-null, the one of its state: result when Completed, error when Failed.
C13_TerminalHasExactlyOne ==
    \A t \in Tasks : ai_tasks[t].status \in Terminal =>
        /\ (ai_tasks[t].result # NULL) # (ai_tasks[t].error # NULL)
        /\ ai_tasks[t].status = "completed" => ai_tasks[t].result # NULL
        /\ ai_tasks[t].status = "failed" => ai_tasks[t].error # NULL

\* C14: a cancel request on a Pending or Processing job answers 200 and sets
\* state Cancelled and completed_at = now, changing nothing else; on a job in
\* any other state, or on an id without a row, it answers 400 and leaves the
\* row as it is.
C14_CancelOnlyFromPendingOrProcessing ==
    [][\A t \in Tasks : Cancel(t) =>
          IF ai_tasks[t].status \in {"pending", "processing"}
          THEN /\ CancelStatusCode(ai_tasks[t]) = 200
               /\ ai_tasks'[t] = [ai_tasks[t] EXCEPT !.status = "cancelled",
                                                      !.completed_at = 0]
          ELSE /\ CancelStatusCode(ai_tasks[t]) = 400
               /\ ai_tasks'[t] = ai_tasks[t]]_vars

\* a job was cancelled while a worker was running its pipeline
C14_Witness ==
    \E t \in Tasks, w \in Workers :
        /\ cur[w] = t
        /\ pc[w] = "tick"
        /\ ai_tasks[t].status = "cancelled"
        /\ ai_tasks[t].completed_at = 0
        /\ ai_tasks[t].started_at # NONE

\* C15: while a job stays Processing its stored progress never decreases, and
\* a progress update of a worker changes nothing on a job that is not
\* Processing.
C15_ProgressMonotone ==
    [][\A t \in Tasks :
          /\ (ai_tasks[t].status = "processing" /\ ai_tasks'[t].status = "processing")
                => ai_tasks'[t].progress >= ai_tasks[t].progress
          /\ \A w \in Workers :
                (HandlerTick(w) /\ cur[w] = t /\ ai_tasks[t].status # "processing")
                    => ai_tasks'[t] = ai_tasks[t]]_vars

\* C16: in every state of a job row, completed_at is set exactly when the
\* job is Completed, Failed or Cancelled.
C16_CompletedAtIffTerminal ==
    \A t \in Tasks : Exists(t) =>
        ((ai_tasks[t].completed_at # NONE) <=> (ai_tasks[t].status \in Terminal))

\* C17: every template with current version_number n has a version row
\* (template_id, n) whose snapshot equals the template's current structure.
C17_CurrentVersionHasRow ==
    \A t \in TemplateIds : templates[t] # NoTemplate =>
        \E v \in VersionRows(t, templates[t].version_number) :
            v.template_structure = templates[t].template_structure

\* C18: two open edit or restore transactions on the same template have never
\* read the same current version_number, and no such call loses its version
\* row (none ends in an error).
C18_EditsSerialized ==
    /\ \A s1, s2 \in Sessions :
          (s1 # s2 /\ tx[s1].pc # "idle" /\ tx[s2].pc # "idle"
              /\ tx[s1].template_id = tx[s2].template_id)
            => tx[s1].old_version # tx[s2].old_version
    /\ \A s \in Sessions : response[s] # 500

\* C19: the version list of a template is in strictly increasing
\* version_number order, starts at 1 and has no gaps.
C19_VersionsListedFromOne ==
    \A t \in TemplateIds :
        \A i \in 1..Len(get_template_versions(t)) : get_template_versions(t)[i] = i

\* two restores of the same version of the same template, committed one right
\* after the other
TwoRestores(i) ==
    /\ history[i].op = "restore" /\ history[i + 1].op = "restore"
    /\ history[i].template_id = history[i + 1].template_id
    /\ history[i].restored_from_version = history[i + 1].restored_from_version

\* the snapshot stored for version n of template t
Snapshot(t, n) == {v.template_structure : v \in VersionRows(t, n)}

\* C20 (as claimed): restore(t, n) followed at once by restore(t, n) yields the
\* versions n+1 and n+2, both with the snapshot of version n.
C20_RestoreTwiceNumbersFromN ==
    \A i \in 1..(Len(history) - 1) : TwoRestores(i) =>
        LET t == history[i].template_id
            n == history[i].restored_from_version IN
        /\ history[i].version_number = n + 1
        /\ history[i + 1].version_number = n + 2
        /\ Snapshot(t, n + 1) = Snapshot(t, n)
        /\ Snapshot(t, n + 2) = Snapshot(t, n)

\* C20 (amended): restore(t, n) followed at once by restore(t, n) yields the
\* versions c+1 and c+2, where c is the template's version_number before the
\* first restore, both with the snapshot of version n.
C20_RestoreTwiceNumbersFromCurrent ==
    \A i \in 1..(Len(history) - 1) : TwoRestores(i) =>
        LET t == history[i].template_id
            n == history[i].restored_from_version
            c == history[i].old_version IN
        /\ history[i].version_number = c + 1
        /\ history[i + 1].version_number = c + 2
        /\ Snapshot(t, c + 1) = Snapshot(t, n)
        /\ Snapshot(t, c + 2) = Snapshot(t, n)
        /\ Cardinality(Snapshot(t, n)) = 1

\* a version older than the current one has been restored twice in a row
C20_Witness ==
    \E i \in 1..(Len(history) - 1) :
        /\ TwoRestores(i)
        /\ history[i].restored_from_version < history[i].old_version
        /\ templates[history[i].template_id].version_number
               = history[i + 1].version_number

\* the last committed edit or restore of template t is the i-th of the history
LastCommit(t, i) ==
    /\ history[i].template_id = t
    /\ \A j \in (i + 1)..Len(history) : history[j].template_id # t

\* C21: after restore(t, k) the template's restored_from_version is k and its
\* structure is the snapshot of version k; after a later update_structure its
\* restored_from_version is null.
C21_RestoredFromTracksLastCommit ==
    \A t \in TemplateIds : \A i \in 1..Len(history) : LastCommit(t, i) =>
        IF history[i].op = "restore"
        THEN /\ templates[t].restored_from_version = history[i].restored_from_version
             /\ Snapshot(t, history[i].restored_from_version)
                    = {templates[t].template_structure}
        ELSE templates[t].restored_from_version = NONE

\* a template was restored and then edited
C21_Witness ==
    \E t \in TemplateIds : \E i \in 2..Len(history) :
        /\ LastCommit(t, i)
        /\ history[i].op = "edit"
        /\ history[i - 1].op = "restore" /\ history[i - 1].template_id = t
        /\ templates[t].restored_from_version = NONE

\* C22: on a connection to an existing job the first event sent is subscribed
\* and the second a task_status, both before any event forwarded from the
\* job's channel.
C22_SubscribedThenStatus ==
    \A c \in Clients : task_status[c] # NULL =>
        /\ Len(sent[c]) >= 1 => sent[c][1].type = "subscribed"
        /\ Len(sent[c]) >= 2 => sent[c][2].type = "task_status"
        /\ \A i \in 1..Len(sent[c]) : sent[c][i].forwarded => i >= 3

\* C23: a connection to a job that was already terminal gets one task_status
\* and then one terminal event: task_complete with elapsed seconds and
\* result_summary for a Completed job, task_error with error and error_type
\* for a Failed one; then it is closed.
C23_TerminalJobGetsSyntheticEvent ==
    \A c \in Clients : (task_status[c] \in Terminal /\ conn[c] = "closed") =>
        /\ Len(sent[c]) = 2
        /\ sent[c][1].type = "task_status"
        /\ task_status[c] = "completed" =>
              /\ sent[c][2].type = "task_complete"
              /\ sent[c][2].elapsed_seconds /\ sent[c][2].result_summary
        /\ task_status[c] = "failed" =>
              /\ sent[c][2].type = "task_error"
              /\ sent[c][2].error /\ sent[c][2].error_type

\* C24: once a terminal event of the job's channel (task_complete or
\* task_error) was forwarded on a connection, its listener has stopped: the
\* connection is being unsubscribed and closed, or is closed.
C24_TerminalEventStopsListener ==
    \A c \in Clients : conn[c] = "listening" =>
        \A i \in 1..Len(sent[c]) :
            ~(sent[c][i].forwarded /\ sent[c][i].type \in {"task_complete", "task_error"})

\* every error of the call so far was a rate limit or a transient error
OnlyTransient == \A i \in 1..Len(call_errors) : call_errors[i] \in Transient

C26_NoRetryOnAuthQuotaOr4xx ==
    (Len(call_errors) >= 1 /\ call_errors[1] \in NotRetried) =>
        /\ call_pc = "raised"
        /\ Len(call_errors) = 1
        /\ call_waits = <<>>

\* C27: for every well-formed JSON text x, every fence and both clients,
\* extract_json(fence(x)) returns exactly x.
C27_ExtractRoundTrip ==
    extract_pc = "done" => json_str = Returned(wanted)

\* C28: build requests for the same template file, made while its task is
\* pending or processing, are answered with the same task_id and put at most
\* one message on the work log: the file never has two tasks in progress.
C28_OneTaskInProgressPerFile ==
    /\ Cardinality({i \in 1..Len(file_tasks) : file_tasks[i].status \in InProgress}) <= 1
    /\ \A r1, r2 \in Requests :
          (/\ build_pc[r1] = "done" /\ build_pc[r2] = "done"
           /\ file_tasks[build_task_id[r1]].status \in InProgress
           /\ file_tasks[build_task_id[r2]].status \in InProgress)
            => build_task_id[r1] = build_task_id[r2]

\* C29: the second statement of a sweep sets every job that is Pending and was
\* created more than 20 minutes ago to Failed, with the error 'Task never
\* started after 20 minutes - no worker available' and completed_at = now, its
\* started_at staying unset; a Pending job younger than 20 minutes is left as
\* it is.
C29_ReapsPendingAfterTwentyMinutes ==
    [][\A w \in Workers : ReaperPending(w) =>
          \A t \in Tasks :
              /\ (ai_tasks[t].status = "pending" /\ ai_tasks[t].created_at > 20) =>
                    /\ ai_tasks'[t].status = "failed"
                    /\ ai_tasks'[t].error =
                           "Task never started after 20 minutes - no worker available"
                    /\ ai_tasks'[t].completed_at = 0
                    /\ ai_tasks'[t].started_at = NONE
              /\ (ai_tasks[t].status = "pending" /\ ai_tasks[t].created_at < 20) =>
                    ai_tasks'[t] = ai_tasks[t]]_vars

\* a sweep has just failed a job that was Pending for more than 20 minutes
C29_Witness ==
    \E t \in Tasks, w \in Workers :
        /\ rpc[w] = "sleeping"
        /\ ai_tasks[t].status = "failed"
        /\ ai_tasks[t].error = PendingTimeoutError
        /\ ai_tasks[t].completed_at = 0
        /\ ai_tasks[t].started_at = NONE
        /\ ai_tasks[t].created_at > 20

C31_PipelineErrorFailsPublishesAcks ==
    [][/\ \A w \in Workers :
             /\ (pc[w] = "fail" /\ pc'[w] = "publish_error") =>
                   /\ ai_tasks'[cur[w]].status = "failed"
                   /\ ai_tasks'[cur[w]].error = HandlerError
             /\ pc[w] = "publish_error" => "task_error" \notin events[cur[w]]
             /\ (pc[w] = "publish_error" /\ pc'[w] = "ack") =>
                   "task_error" \in events'[cur[w]]
             /\ (pc[w] = "idle" /\ pc'[w] = "claim") =>
                   cur'[w] \notin {stream[i] : i \in 1..last_delivered}
       /\ \A t \in pel \ pel' :
             \E w \in Workers : pc[w] = "ack" /\ cur[w] = t /\ pc'[w] = "idle"]_vars

\* a pipeline error was handled to the end: the row is Failed with the
\* handler's error text, task_error is published and the message is acked
C31_Witness ==
    \E t \in Tasks :
        /\ ai_tasks[t].status = "failed"
        /\ ai_tasks[t].error = HandlerError
        /\ "task_error" \in events[t]
        /\ t \notin pel
        /\ \A w \in Workers : pc[w] = "idle"

\* ---- one message handled while the store or Redis may be unreachable ------
\* PostgreSQL goes away or comes back
StoreOutage ==
    /\ store_up' = ~store_up
    /\ UNCHANGED <<redis_up, msg_pc, msg_row, msg_pending, msg_events, msg_cause>>

\* Redis goes away or comes back
RedisOutage ==
    /\ redis_up' = ~redis_up
    /\ UNCHANGED <<store_up, msg_pc, msg_row, msg_pending, msg_events, msg_cause>>

\* an exception raised inside the try block of _handle_parse_task: every
\* except branch calls _handle_task_error
Raised(kind) ==
    /\ msg_pc' = "fail"
    /\ msg_cause' = kind

\* _consume_stream: XREADGROUP hands the message to this consumer
MsgRead ==
    /\ msg_pc = "idle"
    /\ redis_up
    /\ msg_pending' = TRUE
    /\ msg_pc' = "claim"
    /\ UNCHANGED <<store_up, redis_up, msg_row, msg_events, msg_cause>>

\* update_task_status('processing', 0), then publish_progress(0)
MsgClaim ==
    /\ msg_pc = "claim"
    /\ \/ /\ ~store_up
          /\ Raised("infrastructure")
          /\ UNCHANGED <<msg_row, msg_events>>
       \/ /\ store_up /\ ~redis_up
          /\ msg_row' = ClaimWrite(msg_row)
          /\ Raised("infrastructure")
          /\ UNCHANGED msg_events
       \/ /\ store_up /\ redis_up
          /\ msg_row' = ClaimWrite(msg_row)
          /\ msg_events' = msg_events \cup {"progress_update"}
          /\ msg_pc' = "parse"
          /\ UNCHANGED msg_cause
    /\ UNCHANGED <<store_up, redis_up, msg_pending>>

\* parse_document with on_progress: publish_progress, update_task_status,
\* then the pipeline's work, which may raise (file not found, malformed
\* JSON, validation failed, LLM error after retries)
MsgParse ==
    /\ msg_pc = "parse"
    /\ \/ /\ ~redis_up
          /\ Raised("infrastructure")
          /\ UNCHANGED <<msg_row, msg_events>>
       \/ /\ redis_up /\ ~store_up
          /\ msg_events' = msg_events \cup {"progress_update"}
          /\ Raised("infrastructure")
          /\ UNCHANGED msg_row
       \/ /\ redis_up /\ store_up
          /\ msg_events' = msg_events \cup {"progress_update"}
          /\ msg_row' = TickWrite(msg_row, ParseTicks[Len(ParseTicks)])
          /\ \/ Raised("pipeline")
             \/ msg_pc' = "save" /\ UNCHANGED msg_cause
    /\ UNCHANGED <<store_up, redis_up, msg_pending>>

\* save_task_result, then create_template inside its own try/except
MsgSave ==
    /\ msg_pc = "save"
    /\ \/ /\ ~store_up
          /\ Raised("infrastructure")
          /\ UNCHANGED msg_row
       \/ /\ store_up
          /\ msg_row' = CompleteWrite(msg_row)
          /\ msg_pc' = "publish_completion"
          /\ UNCHANGED msg_cause
    /\ UNCHANGED <<store_up, redis_up, msg_pending, msg_events>>

\* publish_completion; the handler then returns
MsgPublishCompletion ==
    /\ msg_pc = "publish_completion"
    /\ \/ /\ ~redis_up
          /\ Raised("infrastructure")
          /\ UNCHANGED msg_events
       \/ /\ redis_up
          /\ msg_events' = msg_events \cup {"task_complete"}
          /\ msg_pc' = "ack"
          /\ UNCHANGED msg_cause
    /\ UNCHANGED <<store_up, redis_up, msg_row, msg_pending>>

\* _handle_task_error: update_task_status('failed', error=...); when the
\* store raises the exception leaves the handler and _process_message
\* logs it without acking
MsgHandleTaskError ==
    /\ msg_pc = "fail"
    /\ \/ /\ ~store_up
          /\ msg_pc' = "done"
          /\ UNCHANGED msg_row
       \/ /\ store_up
          /\ msg_row' = FailWrite(msg_row)
          /\ msg_pc' = "publish_error"
    /\ UNCHANGED <<store_up, redis_up, msg_pending, msg_events, msg_cause>>

\* _handle_task_error: publish_error; when Redis raises the exception
\* leaves the handler and _process_message logs it without acking
MsgPublishError ==
    /\ msg_pc = "publish_error"
    /\ \/ /\ ~redis_up
          /\ msg_pc' = "done"
          /\ UNCHANGED msg_events
       \/ /\ redis_up
          /\ msg_events' = msg_events \cup {"task_error"}
          /\ msg_pc' = "ack"
    /\ UNCHANGED <<store_up, redis_up, msg_row, msg_pending, msg_cause>>

\* _process_message after the handler returned: ack_message; its exception
\* is caught and logged
MsgAck ==
    /\ msg_pc = "ack"
    /\ msg_pending' = IF redis_up THEN FALSE ELSE msg_pending
    /\ msg_pc' = "done"
    /\ UNCHANGED <<store_up, redis_up, msg_row, msg_events, msg_cause>>

OutageNext ==
    /\ UNCHANGED <<earlier_vars, parse_vars, send_vars>>
    /\ \/ StoreOutage
       \/ RedisOutage
       \/ MsgRead
       \/ MsgClaim
       \/ MsgParse
       \/ MsgSave
       \/ MsgPublishCompletion
       \/ MsgHandleTaskError
       \/ MsgPublishError
       \/ MsgAck

SpecOutage == Init /\ [][OutageNext]_vars

\* C32: when the store or Redis is unreachable while a message is handled,
\* the job's row is not marked Failed because of it and the message is not
\* acked: it stays in the consumer group's pending set.
C32_OutageNeitherFailsNorAcks ==
    msg_cause = "infrastructure" =>
        /\ msg_row.status # "failed"
        /\ msg_pending

\* the log line after json.loads: len(template.get('fixed_sections', [])) and
\* the same for fillable_sections
SizeLogRaises(template) ==
    \/ template.kind # "object"
    \/ Get(template, "fixed_sections", List(<<>>)).kind \in {"number", "bool"}
    \/ Get(template, "fillable_sections", List(<<>>)).kind \in {"number", "bool"}

\* the pipeline ends with an exception
ParseRaises(type, errors) ==
    /\ parse_raised' = [type |-> type, errors |-> errors]
    /\ parse_pc' = "raised"

\* _identify_sections: one gateway call, extract_json, json.loads with its
\* repairs, the log line
identify_sections ==
    /\ parse_pc = "identify"
    /\ llm_calls' = Append(llm_calls, "section_identification")
    /\ \/ /\ \E type \in {"llm_error", "malformed_json"} : ParseRaises(type, <<>>)
          /\ UNCHANGED parse_template
       \/ \E template \in LlmOutputs :
             IF SizeLogRaises(template)
             THEN ParseRaises("identify_sections", <<>>) /\ UNCHANGED parse_template
             ELSE /\ parse_template' = template
                  /\ parse_pc' = "validate"
                  /\ UNCHANGED parse_raised
    /\ UNCHANGED <<ENABLE_SELF_HEALING, parse_errors, parse_warnings, parse_new_errors,
                   metadata>>

\* _validate_and_heal up to the self-heal call: validate_template is called
\* outside any try
validate_and_heal ==
    /\ parse_pc = "validate"
    /\ LET validated == validate_template(parse_template)
       IN  IF validated.raised
           THEN /\ ParseRaises("validate_template", <<>>)
                /\ UNCHANGED <<parse_errors, parse_warnings>>
           ELSE /\ parse_errors' = validated.errors
                /\ parse_warnings' = validated.warnings
                /\ IF validated.errors = <<>>
                   THEN parse_pc' = "enrich" /\ UNCHANGED parse_raised
                   ELSE IF ENABLE_SELF_HEALING
                   THEN parse_pc' = "heal" /\ UNCHANGED parse_raised
                   ELSE ParseRaises("validation_failed", validated.errors)
    /\ UNCHANGED <<ENABLE_SELF_HEALING, llm_calls, parse_template, parse_new_errors,
                   metadata>>

\* _self_heal_template and the re-validation, inside try ... except Exception,
\* whose handler raises ValueError with the errors of the first validation
self_heal_template ==
    /\ parse_pc = "heal"
    /\ llm_calls' = Append(llm_calls, "self_heal_template")
    /\ \/ /\ ParseRaises("validation_failed", parse_errors)
          /\ UNCHANGED <<parse_template, parse_new_errors>>
       \/ \E healed \in LlmOutputs :
             IF SizeLogRaises(healed) \/ validate_template(healed).raised
             THEN /\ ParseRaises("validation_failed", parse_errors)
                  /\ UNCHANGED <<parse_template, parse_new_errors>>
             ELSE /\ parse_template' = healed
                  /\ parse_new_errors' = validate_template(healed).errors
                  /\ IF validate_template(healed).errors # <<>>
                     THEN ParseRaises("validation_failed", parse_errors)
                     ELSE parse_pc' = "enrich" /\ UNCHANGED parse_raised
    /\ UNCHANGED <<ENABLE_SELF_HEALING, parse_errors, parse_warnings, metadata>>

\* _estimate_completion_time: max(5, int(fillable_sections_count * 2.5))
estimate_completion_time(fillable_sections_count) ==
    IF fillable_sections_count = 0 THEN 5
    ELSE IF (fillable_sections_count * 25) \div 10 > 5
         THEN (fillable_sections_count * 25) \div 10
         ELSE 5

\* _enrich_template; parse_document then returns the template
enrich_template ==
    /\ parse_pc = "enrich"
    /\ LET fillable_count ==
               Len(Iterated(Get(parse_template, "fillable_sections", List(<<>>))))
       IN  metadata' =
               [total_fixed_sections |->
                    Len(Iterated(Get(parse_template, "fixed_sections", List(<<>>)))),
                total_fillable_sections |-> fillable_count,
                completion_estimate_minutes |-> estimate_completion_time(fillable_count)]
    /\ parse_pc' = "done"
    /\ UNCHANGED <<ENABLE_SELF_HEALING, llm_calls, parse_template, parse_errors,
                   parse_warnings, parse_new_errors, parse_raised>>

\* ENABLE_TEMPLATE_SELF_HEALING is read from the environment at import
ParseInit ==
    /\ FabricInit /\ GatewayIdle /\ DispatchIdle /\ TemplatesIdle /\ SocketsIdle
    /\ RetryIdle /\ ExtractIdle /\ BuildIdle /\ OutageIdle /\ SendIdle
    /\ provider = "gemini"
    /\ ENABLE_SELF_HEALING \in BOOLEAN
    /\ parse_pc = "identify"
    /\ llm_calls = <<>>
    /\ parse_template = Dict(<<>>)
    /\ parse_errors = <<>>
    /\ parse_warnings = <<>>
    /\ parse_new_errors = <<>>
    /\ parse_raised = NoException
    /\ metadata = NoMetadata

ParseNext ==
    /\ UNCHANGED <<earlier_vars, outage_vars, send_vars>>
    /\ \/ identify_sections
       \/ validate_and_heal
       \/ self_heal_template
       \/ enrich_template

SpecParse == ParseInit /\ [][ParseNext]_vars

\* C33: one run of the parse pipeline makes at most two gateway calls: the
\* section_identification call first and, only when the first validation
\* reported structural errors and self-healing is enabled, exactly one
\* self_heal_template call; a template with warnings and no structural error
\* is accepted without a second call.
C33_AtMostOneSelfHealCall ==
    /\ Len(llm_calls) <= 2
    /\ llm_calls # <<>> => llm_calls[1] = "section_identification"
    /\ parse_pc = "heal" =>
          /\ validate_structure(parse_template).errors # <<>>
          /\ ENABLE_SELF_HEALING
          /\ Len(llm_calls) = 1
    /\ Len(llm_calls) = 2 =>
          /\ llm_calls[2] = "self_heal_template"
          /\ parse_errors # <<>>
          /\ ENABLE_SELF_HEALING
    /\ (parse_errors # <<>> /\ ENABLE_SELF_HEALING
        /\ parse_pc \in {"enrich", "done", "raised"}) => Len(llm_calls) = 2
    /\ (parse_pc = "done" /\ parse_errors = <<>>) => Len(llm_calls) = 1

\* a template with structural errors was healed by the one self-heal call
C33_Witness ==
    /\ parse_pc = "done"
    /\ parse_errors # <<>>
    /\ llm_calls = <<"section_identification", "self_heal_template">>

\* C34: when the healed template still fails validation, the pipeline raises
\* the validation failure with the errors that survive in the healed template.
C34_RaisesSurvivingErrors ==
    (parse_pc = "raised" /\ parse_new_errors # <<>>) =>
        /\ parse_raised.type = "validation_failed"
        /\ parse_raised.errors = parse_new_errors

\* C39: validate_template returns an (errors, warnings) pair for every value
\* json.loads can produce and never raises: parse_document never ends with an
\* exception that escaped validate_template, so a template whose structure is
\* invalid reaches the self-heal step instead.
C39_ValidateTemplateIsTotal ==
    parse_raised.type # "validate_template"

\* C40: enrichment sets completion_estimate_minutes to max(5, ceil(2.5 * n))
\* for a template with n fillable sections.
C40_EstimateRoundsUp ==
    parse_pc = "done" =>
        LET n == metadata.total_fillable_sections
            rounded_up == (n * 25 + 9) \div 10
        IN  metadata.completion_estimate_minutes =
                IF rounded_up > 5 THEN rounded_up ELSE 5

\* ---- the WebSocket endpoint with a client that stays connected --------------
SocketLiveNext ==
    /\ UNCHANGED <<fabric_vars, gateway_vars, dispatch_vars, template_vars, retry_vars,
                   extract_vars, build_vars, later_vars>>
    /\ \/ SocketSubmit
       \/ WorkerClaim
       \/ WorkerProgress
       \/ WorkerSave
       \/ WorkerPublishCompletion
       \/ WorkerFail
       \/ WorkerPublishError
       \/ SocketCancel
       \/ \E c \in Clients : Connect(c)
       \/ \E c \in Clients : SendCompletion(c)
       \/ \E c \in Clients : Subscribe(c)
       \/ \E c \in Clients : Forward(c)
       \/ \E c \in Clients : Finally(c)

\* the worker's handler and the endpoint's coroutines keep running
SocketFairness ==
    /\ WF_socket_vars(WorkerClaim)
    /\ WF_socket_vars(WorkerSave \/ WorkerFail)
    /\ WF_socket_vars(WorkerPublishCompletion)
    /\ WF_socket_vars(WorkerPublishError)
    /\ \A c \in Clients :
          /\ WF_socket_vars(SendCompletion(c))
          /\ WF_socket_vars(Subscribe(c))
          /\ WF_socket_vars(Forward(c))
          /\ WF_socket_vars(Finally(c))

SpecSocketLive == Init /\ [][SocketLiveNext]_vars /\ SocketFairness

\* C35: a client that connected while its job was not terminal eventually
\* receives a terminal event (task_complete or task_error) and is closed.
C35_EventuallyTerminalEvent ==
    \A c \in Clients :
        (conn[c] = "verified" /\ task_status[c] \notin Terminal)
            ~> (/\ conn[c] = "closed"
                /\ \E i \in 1..Len(sent[c]) :
                      sent[c][i].type \in {"task_complete", "task_error"})

\* C36: whenever a worker acks a message, the job the message refers to is
\* Completed or Failed.
C36_AckOnlyWhenTerminal ==
    [][\A w \in Workers :
          (pc[w] = "ack" /\ pel' # pel) =>
              ai_tasks[cur[w]].status \in {"completed", "failed"}]_vars

\* C38: once a job's started_at is set it is never stamped again: in every
\* step the time since started_at stays or grows, it never goes back.
C38_StartedAtNeverChanges ==
    [][\A t \in Tasks :
          ai_tasks[t].started_at # NONE =>
              ai_tasks'[t].started_at >= ai_tasks[t].started_at]_vars

\* ---- websocket_endpoint after the subscription: send failures ----------------
\* safe_send_json: False when client_state is not CONNECTED, and False when
\* send_json raises; the set of values a call can return
safe_send_json(state) == IF state # "CONNECTED" THEN {FALSE} ELSE {TRUE, FALSE}

\* variant for C37: a listener that goes on whatever the send returned
ListenerIgnoresSendResult(ok, e) == ~StopsListener(e)

\* listen_redis after one message: "break" when the send failed or the message
\* was terminal, otherwise the next iteration of "async for"
ListenerGoesOn(ok, e) == ok /\ ~StopsListener(e)

\* the peer closes or is lost
PeerGoes ==
    /\ client_state = "CONNECTED"
    /\ client_state' = "DISCONNECTED"
    /\ UNCHANGED <<handler_pc, listener_task, connection_alive, channel_subscribed,
                   pubsub, unsubscribes, failed_in, forwards, late_forwards,
                   published, pongs>>

\* the worker publishes on progress:task:{id}: the pubsub receives the message
\* if it is subscribed at this instant
WorkerPublishes ==
    /\ published < MaxPublished
    /\ published' = published + 1
    /\ \E e \in {ProgressUpdate, TaskComplete, TaskError} :
          pubsub' = IF channel_subscribed THEN Append(pubsub, e) ELSE pubsub
    /\ UNCHANGED <<client_state, handler_pc, listener_task, connection_alive,
                   channel_subscribed, unsubscribes, failed_in, forwards,
                   late_forwards, pongs>>

\* pubsub = redis_client._client.pubsub(); await pubsub.subscribe(channel_name)
SubscribeChannel ==
    /\ handler_pc = "subscribe"
    /\ channel_subscribed' = TRUE
    /\ handler_pc' = "confirm"
    /\ UNCHANGED <<client_state, listener_task, connection_alive, pubsub, unsubscribes,
                   failed_in, forwards, late_forwards, published, pongs>>

\* the subscription confirmation: on a failed send connection_alive = False
\* and return (to the finally block); otherwise the listener task is created
SendSubscribed ==
    /\ handler_pc = "confirm"
    /\ \E ok \in safe_send_json(client_state) :
          IF ok
          THEN /\ listener_task' = "listening"
               /\ handler_pc' = "receive"
               /\ UNCHANGED <<connection_alive, failed_in>>
          ELSE /\ connection_alive' = FALSE
               /\ failed_in' = "subscribed"
               /\ handler_pc' = "finally"
               /\ UNCHANGED listener_task
    /\ UNCHANGED <<client_state, channel_subscribed, pubsub, unsubscribes, forwards,
                   late_forwards, published, pongs>>

\* listen_redis, one message of pubsub.listen(); it runs while the handler
\* waits in receive_text
ListenRedis ==
    /\ listener_task = "listening" /\ handler_pc = "receive"
    /\ pubsub # <<>>
    /\ pubsub' = Tail(pubsub)
    /\ IF ~connection_alive
       THEN /\ listener_task' = "finished"
            /\ UNCHANGED <<connection_alive, failed_in, forwards, late_forwards>>
       ELSE \E ok \in safe_send_json(client_state) :
               /\ forwards' = IF ok THEN forwards + 1 ELSE forwards
               /\ late_forwards' = IF failed_in # "none" THEN late_forwards + 1
                                   ELSE late_forwards
               /\ failed_in' = IF ~ok /\ failed_in = "none" THEN "listener" ELSE failed_in
               /\ IF ListenerGoesOn(ok, Head(pubsub))
                  THEN UNCHANGED <<listener_task, connection_alive>>
                  ELSE /\ connection_alive' = FALSE
                       /\ listener_task' = "finished"
    /\ UNCHANGED <<client_state, handler_pc, channel_subscribed, unsubscribes,
                   published, pongs>>

\* the receive loop: a ping is answered with a pong; a failed pong ends the loop
ReceivePing ==
    /\ handler_pc = "receive" /\ connection_alive
    /\ client_state = "CONNECTED"
    /\ pongs < MaxPings
    /\ \E ok \in safe_send_json(client_state) :
          IF ok
          THEN /\ pongs' = pongs + 1
               /\ UNCHANGED <<handler_pc, connection_alive, failed_in>>
          ELSE /\ connection_alive' = FALSE
               /\ failed_in' = IF failed_in = "none" THEN "pong" ELSE failed_in
               /\ handler_pc' = "finally"
               /\ UNCHANGED pongs
    /\ UNCHANGED <<client_state, listener_task, channel_subscribed, pubsub, unsubscribes,
                   forwards, late_forwards, published>>

\* the receive loop: receive_text raises WebSocketDisconnect
ReceiveDisconnect ==
    /\ handler_pc = "receive" /\ connection_alive
    /\ client_state = "DISCONNECTED"
    /\ connection_alive' = FALSE
    /\ handler_pc' = "finally"
    /\ UNCHANGED <<client_state, listener_task, channel_subscribed, pubsub, unsubscribes,
                   failed_in, forwards, late_forwards, published, pongs>>

\* the receive loop: the one-second timeout passes and "while connection_alive"
\* is tested again
ReceiveTimeout ==
    /\ handler_pc = "receive" /\ ~connection_alive
    /\ handler_pc' = "finally"
    /\ UNCHANGED <<client_state, listener_task, connection_alive, channel_subscribed,
                   pubsub, unsubscribes, failed_in, forwards, late_forwards,
                   published, pongs>>

\* finally: connection_alive = False; listener_task.cancel() and await it
CancelListener ==
    /\ handler_pc = "finally"
    /\ connection_alive' = FALSE
    /\ listener_task' = IF listener_task = "listening" THEN "cancelled" ELSE listener_task
    /\ handler_pc' = "unsubscribe"
    /\ UNCHANGED <<client_state, channel_subscribed, pubsub, unsubscribes, failed_in,
                   forwards, late_forwards, published, pongs>>

\* finally: if pubsub: await pubsub.unsubscribe(channel_name); await pubsub.close()
Unsubscribe ==
    /\ handler_pc = "unsubscribe"
    /\ channel_subscribed' = FALSE
    /\ pubsub' = <<>>
    /\ unsubscribes' = unsubscribes + 1
    /\ handler_pc' = "close"
    /\ UNCHANGED <<client_state, listener_task, connection_alive, failed_in, forwards,
                   late_forwards, published, pongs>>

\* finally: websocket.close() if still connected; the handler returns
CloseSocket ==
    /\ handler_pc = "close"
    /\ client_state' = "DISCONNECTED"
    /\ handler_pc' = "returned"
    /\ UNCHANGED <<listener_task, connection_alive, channel_subscribed, pubsub,
                   unsubscribes, failed_in, forwards, late_forwards, published, pongs>>

SendNext ==
    /\ UNCHANGED <<earlier_vars, outage_vars, parse_vars>>
    /\ \/ PeerGoes
       \/ WorkerPublishes
       \/ SubscribeChannel
       \/ SendSubscribed
       \/ ListenRedis
       \/ ReceivePing
       \/ ReceiveDisconnect
       \/ ReceiveTimeout
       \/ CancelListener
       \/ Unsubscribe
       \/ CloseSocket

\* the event loop keeps running the handler and the listener; the timeout of
\* receive_text always passes
SendFairness ==
    /\ WF_send_vars(ReceiveTimeout)
    /\ WF_send_vars(CancelListener)
    /\ WF_send_vars(Unsubscribe)
    /\ WF_send_vars(CloseSocket)

SpecSend == Init /\ [][SendNext]_vars /\ SendFairness

\* C37: after a send to the peer failed, the listener forwards nothing more;
\* the channel is unsubscribed at most once, and exactly once by the time the
\* handler has returned, with the listener stopped; and after a failed send the
\* handler does return.
C37_SendFailureIsCancellation ==
    /\ [](late_forwards = 0)
    /\ [](unsubscribes <= 1)
    /\ [](handler_pc = "returned" =>
             /\ unsubscribes = 1
             /\ ~channel_subscribed
             /\ listener_task # "listening")
    /\ (failed_in # "none") ~> (handler_pc = "returned")

\* a message the listener could not forward ended the connection
C37_Witness ==
    /\ failed_in = "listener"
    /\ forwards > 0
    /\ handler_pc = "returned"
    /\ unsubscribes = 1

====
